---- MODULE Spec2Model ----
(***************************************************************************)
(* A model of the Node.js Pagefind search client (src/src/pagefind-client.ts *)
(* and src/src/wasm-bridge.ts): initialization, query normalization, the    *)
(* memoized chunk store, the engine call protocol and lazy fragment loading.*)
(*                                                                          *)
(* JavaScript runs one task to its next await before another task runs.     *)
(* `running` names the task that holds the thread; it is "none" while every *)
(* task is suspended at an await.  Engine (WASM) calls are synchronous: a   *)
(* call is begun and returned inside one synchronous segment.               *)
(***************************************************************************)
EXTENDS Naturals, Integers, Sequences, FiniteSets, TLC

(***************************************************************************)
(* Bounds of the model                                                      *)
(***************************************************************************)
\* cap on the number of _loadChunk/_loadFilterChunk/_loadFragment
\* invocations counted per hash
MaxGen == 2
\* cap on the number of data() calls per fragment hash
MaxDataCalls == 3

\* the concurrent search() calls
Searches == {"s1", "s2"}
\* content hashes of the index, filter and fragment chunks of the build
IndexHashes == {"i1"}
FilterHashes == {"f1"}
FragmentHashes == {"g1"}

\* this.rawPtr === null
NoHandle == 0

(***************************************************************************)
(* Strings are sequences of one-character strings.                         *)
(***************************************************************************)
WhiteSpace == {" ", "\t", "\n"}
LineTerminators == {"\n"}
\* the grave accent, written out
GraveAccent == "GRAVE"
\* the character class of the first replace() of the normalization
Punctuation ==
  {".", GraveAccent, "~", "!", "@", "#", "$", "%", "^", "&", "*", "(", ")",
   "{", "}", "[", "]", "\\", "|", ":", ";", "'", "\"", ",", "<", ">", "/",
   "?", "-"}

IsSpace(c) == c \in WhiteSpace

ToLowerChar(c) == IF c = "A" THEN "a" ELSE IF c = "B" THEN "b" ELSE c

ToLowerCase(s) == [i \in 1..Len(s) |-> ToLowerChar(s[i])]

RECURSIVE TrimStart(_)
TrimStart(s) ==
  IF s = <<>> THEN <<>>
  ELSE IF IsSpace(s[1]) THEN TrimStart(Tail(s)) ELSE s

RECURSIVE TrimEnd(_)
TrimEnd(s) ==
  IF s = <<>> THEN <<>>
  ELSE IF IsSpace(s[Len(s)]) THEN TrimEnd(SubSeq(s, 1, Len(s) - 1)) ELSE s

\* String.prototype.trim
Trim(s) == TrimEnd(TrimStart(s))

\* .replace(/[.`~!@#$%^&*(){}[\]\\|:;'",<>/?\-]/g, '')
StripPunctuation(s) == SelectSeq(s, LAMBDA c : c \notin Punctuation)

\* length of the run of whitespace at the head of s
RECURSIVE SpaceRun(_)
SpaceRun(s) ==
  IF s = <<>> \/ ~IsSpace(s[1]) THEN 0 ELSE 1 + SpaceRun(Tail(s))

\* .replace(/\s{2,}/g, ' '): a run of two or more whitespace characters
\* becomes one space; a run of one is left as it is
RECURSIVE CollapseSpaces(_)
CollapseSpaces(s) ==
  IF s = <<>> THEN <<>>
  ELSE IF SpaceRun(s) >= 2
       THEN <<" ">> \o CollapseSpaces(SubSeq(s, SpaceRun(s) + 1, Len(s)))
       ELSE <<s[1]>> \o CollapseSpaces(Tail(s))

\* term.toLowerCase().trim().replace(punct).replace(spaces).trim()
Normalize(term) ==
  Trim(CollapseSpaces(StripPunctuation(Trim(ToLowerCase(term)))))

\* /^\s*".+"\s*$/.test(term)
ExactSearch(term) ==
  \E i, j \in 1..Len(term) :
    /\ j - i >= 2
    /\ term[i] = "\"" /\ term[j] = "\""
    /\ \A k \in 1..(i - 1) : IsSpace(term[k])
    /\ \A k \in (j + 1)..Len(term) : IsSpace(term[k])
    /\ \A k \in (i + 1)..(j - 1) : term[k] \notin LineTerminators

\* the raw queries the searches are called with
Terms ==
  { <<>>, <<" ">>, <<"!", " ">>, <<"\"", "\"">>,
    <<"a">>, <<"A", "!">>, <<"\"", "a", "\"">>, <<"B">> }


(***************************************************************************)
(* State                                                                    *)
(***************************************************************************)
VARIABLES
  ranking,          \* options.ranking was given to the constructor
  initPc,           \* position of init()
  entryResult,      \* how the fetch of pagefind-entry.json ended
  metaSt, wasmSt,   \* the two fetchAndDecompress promises of init()
  wasm,             \* this.wasm !== null
  rawPtr,           \* this.rawPtr (NoHandle = null)
  loadedChunks,     \* this.loadedChunks: hash -> promise
  loadedFilters,    \* this.loadedFilters: hash -> promise
  loadedFragments,  \* this.loadedFragments: hash -> promise
  fetches,          \* number of fetch() calls issued per resource
  engineHandle,     \* the handle the engine returned last (0 before init)
  engineLoaded,     \* chunk hashes the engine's load calls were given
  inFlight,         \* engine calls begun and not yet returned
  running,          \* the task that holds the JavaScript thread
  sq,               \* the search() calls
  callsBy,          \* number of engine calls begun, per task
  dataCalls,        \* number of data() calls, per fragment hash
  cached,           \* the value each fulfilled fragment promise holds
  dcall,            \* the data() calls whose results are followed
  pure,             \* one call of a pure function: argument and result
  bridge            \* the module state of wasm-bridge.ts and the engines'
                    \* memories it is called with

vars ==
  <<ranking, initPc, entryResult, metaSt, wasmSt, wasm, rawPtr, loadedChunks,
    loadedFilters, loadedFragments, fetches, engineHandle, engineLoaded,
    inFlight, running, sq, callsBy, dataCalls, cached, dcall, pure,
    bridge>>

clientVars == <<wasm, rawPtr, loadedChunks, loadedFilters, loadedFragments>>
initVars == <<initPc, entryResult, metaSt, wasmSt>>
engineVars == <<engineHandle, engineLoaded, inFlight, callsBy>>
\* the part of the state that search() and the chunk store do not touch
auxVars == <<cached, dcall, pure, bridge>>
\* the state of the client, the engine and the searches
mainVars ==
  <<ranking, initPc, entryResult, metaSt, wasmSt, wasm, rawPtr, loadedChunks,
    loadedFilters, loadedFragments, fetches, engineHandle, engineLoaded,
    inFlight, running, sq, callsBy, dataCalls>>

ChunkHashes == IndexHashes \cup FilterHashes
Resources == {"entry", "meta", "wasm"} \cup ChunkHashes \cup FragmentHashes
Tasks == {"init"} \cup Searches \cup ChunkHashes

\* a hash that is not a key of the map
NoEntry == [gen |-> 0, st |-> "none", err |-> "none"]

\* Map.prototype.has
HasEntryNever(map, hash) == FALSE
HasEntryUnlessFailed(map, hash) ==
  map[hash].gen # 0 /\ map[hash].st # "failed"
HasEntry(map, hash) == map[hash].gen # 0

\* the engine calls that return a new handle, and search
MutatingOps ==
  {"init_pagefind", "set_ranking_weights", "load_index_chunk",
   "load_filter_chunk", "search"}

\* the response of a search whose query is empty after normalization
EmptyResponse ==
  [results |-> <<>>, unfilteredResultCount |-> 0, filters |-> {},
   totalFilters |-> {}, timings |-> [preload |-> 0, search |-> 0, total |-> 0]]

\* what the engine's search call may answer, already split into its parts:
\* filter maps are sets of <<filter, value, count>>
EngineReplies ==
  { [results |-> <<>>, count |-> 0, filters |-> {}, totalFilters |-> {}],
    [results |-> <<"g1">>, count |-> 1, filters |-> {<<"tag", "x", 1>>},
     totalFilters |-> {<<"tag", "x", 2>>}] }

IdleSearch ==
  [pc |-> "idle", norm |-> <<>>, exact |-> FALSE, needIdx |-> {},
   needFlt |-> {}, err |-> "none", resp |-> <<>>, initOk |-> FALSE,
   pendingAtReject |-> {}]

\* the engine instances of the process
Engines == {"e1", "e2"}

\* wasm-bridge.ts lines 13-14 after the module is loaded: no cached view.
\* buffer[e] numbers the ArrayBuffer that is engine e's memory now, sp[e] is
\* e's scratch pointer counted from where it stood at first.  The other
\* fields describe the last bridge call: its name and engine, the scratch
\* pointer before it and at the engine call, the memory accesses it made,
\* whether the engine returned, what d0/d1 hold, what was freed
BridgeLoaded ==
  [cachedUint8 |-> <<>>, cachedInt32 |-> <<>>,
   buffer |-> [e \in Engines |-> 0],
   sp |-> [e \in Engines |-> 0],
   op |-> "none", engine |-> "none", spBefore |-> 0, spAtCall |-> <<>>,
   accesses |-> {}, rederived |-> FALSE, thrown |-> FALSE,
   returned |-> FALSE, d |-> "undefined", freed |-> <<>>]

\* the client after construction, lines 240-250
ClientInit ==
  /\ ranking \in BOOLEAN
  /\ initPc = "new"
  /\ entryResult = "none"
  /\ metaSt = "none"
  /\ wasmSt = "none"
  /\ wasm = FALSE
  /\ rawPtr = NoHandle
  /\ loadedChunks = [h \in IndexHashes |-> NoEntry]
  /\ loadedFilters = [h \in FilterHashes |-> NoEntry]
  /\ loadedFragments = [h \in FragmentHashes |-> NoEntry]
  /\ fetches = [r \in Resources |-> 0]
  /\ engineHandle = 0
  /\ engineLoaded = {}
  /\ inFlight = {}
  /\ running = "none"
  /\ sq = [s \in Searches |-> IdleSearch]
  /\ callsBy = [t \in Tasks |-> 0]
  /\ dataCalls = [h \in FragmentHashes |-> 0]

Init ==
  /\ ClientInit
  /\ cached = [h \in FragmentHashes |-> <<>>]
  /\ dcall = <<>>
  /\ pure = [arg |-> <<>>, ret |-> <<>>]
  /\ bridge = BridgeLoaded

(***************************************************************************)
(* The engine call protocol                                                 *)
(***************************************************************************)
\* a WASM export is an ordinary synchronous function: the caller keeps the
\* thread until the call returns
CallYieldsAsync == TRUE
CallYields == FALSE

\* task t calls engine operation op, passing this.rawPtr as it is now
BeginCall(t, op) ==
  /\ inFlight' = inFlight \cup {[by |-> t, op |-> op, ptr |-> rawPtr]}
  /\ callsBy' = [callsBy EXCEPT ![t] = @ + 1]
  /\ running' = IF CallYields THEN "none" ELSE t

\* the call of task t is in flight and t may go on
Returning(t, op) ==
  /\ running \in {t, "none"}
  /\ \E c \in inFlight : c.by = t /\ c.op = op

EndCall(t) == inFlight' = {c \in inFlight : c.by # t}

\* lines 450, 463: this.rawPtr after a load call returned handle ret
HandleAfterLoadKept(ret) == rawPtr
HandleAfterLoad(ret) == ret

(***************************************************************************)
(* init()                                                                   *)
(***************************************************************************)
\* line 257: fetch pagefind-entry.json
InitCall ==
  /\ running = "none"
  /\ initPc = "new"
  /\ initPc' = "entry"
  /\ fetches' = [fetches EXCEPT !["entry"] = @ + 1]
  /\ UNCHANGED <<ranking, entryResult, metaSt, wasmSt, clientVars,
                 engineVars, running, sq, dataCalls, auxVars>>

\* the manifest is usable: success status and at least one language
EntryUsableNoLanguageCheck(out) == out \in {"ok", "noLanguages"}
EntryUsable(out) == out = "ok"

\* lines 258-278: the entry response arrives; on success both files are fetched
InitEntryFetched(out) ==
  /\ running = "none"
  /\ initPc = "entry"
  /\ entryResult' = out
  /\ IF EntryUsable(out)
     THEN /\ initPc' = "files"
          /\ metaSt' = "pending"
          /\ wasmSt' = "pending"
          /\ fetches' = [fetches EXCEPT !["meta"] = @ + 1, !["wasm"] = @ + 1]
     ELSE /\ initPc' = "failed"
          /\ UNCHANGED <<metaSt, wasmSt, fetches>>
  /\ UNCHANGED <<ranking, clientVars, engineVars, running, sq, dataCalls, auxVars>>

\* lines 273-278: Promise.all of the two fetchAndDecompress calls
AfterFiles(pc, m, w) ==
  IF pc # "files" THEN pc
  ELSE IF "failed" \in {m, w} THEN "failed"
  ELSE IF m = "ok" /\ w = "ok" THEN "instantiate"
  ELSE pc

InitMetaFetched(out) ==
  /\ running = "none"
  /\ metaSt = "pending"
  /\ metaSt' = IF out = "ok" THEN "ok" ELSE "failed"
  /\ initPc' = AfterFiles(initPc, metaSt', wasmSt)
  /\ UNCHANGED <<ranking, entryResult, wasmSt, clientVars, fetches,
                 engineVars, running, sq, dataCalls, auxVars>>

InitWasmFetched(out) ==
  /\ running = "none"
  /\ wasmSt = "pending"
  /\ wasmSt' = IF out = "ok" THEN "ok" ELSE "failed"
  /\ initPc' = AfterFiles(initPc, metaSt, wasmSt')
  /\ UNCHANGED <<ranking, entryResult, metaSt, clientVars, fetches,
                 engineVars, running, sq, dataCalls, auxVars>>

\* lines 281-287: WebAssembly.instantiate settles; this.wasm is set and
\* init_pagefind is called
InitInstantiated(out) ==
  /\ running = "none"
  /\ initPc = "instantiate"
  /\ IF out = "ok"
     THEN /\ wasm' = TRUE
          /\ initPc' = "initPagefind"
          /\ BeginCall("init", "init_pagefind")
          /\ UNCHANGED engineHandle
     ELSE /\ initPc' = "failed"
          /\ UNCHANGED <<wasm, engineHandle, inFlight, callsBy, running>>
  /\ UNCHANGED <<ranking, entryResult, metaSt, wasmSt, rawPtr, loadedChunks,
                 loadedFilters, loadedFragments, fetches, engineLoaded, sq,
                 dataCalls, auxVars>>

\* lines 287-302: init_pagefind returns the first handle; with ranking
\* options set_ranking_weights is called next
InitPagefindReturn(out) ==
  /\ initPc = "initPagefind"
  /\ Returning("init", "init_pagefind")
  /\ IF out = "ok"
     THEN /\ engineHandle' = engineHandle + 1
          /\ rawPtr' = engineHandle'
          /\ IF ranking
             THEN /\ initPc' = "setRanking"
                  /\ inFlight' =
                       {[by |-> "init", op |-> "set_ranking_weights",
                         ptr |-> rawPtr']}
                         \cup {c \in inFlight : c.by # "init"}
                  /\ callsBy' = [callsBy EXCEPT !["init"] = @ + 1]
                  /\ running' = IF CallYields THEN "none" ELSE "init"
             ELSE /\ initPc' = "done"
                  /\ EndCall("init")
                  /\ running' = "none"
                  /\ UNCHANGED callsBy
     ELSE /\ initPc' = "failed"
          /\ EndCall("init")
          /\ running' = "none"
          /\ UNCHANGED <<engineHandle, rawPtr, callsBy>>
  /\ UNCHANGED <<ranking, entryResult, metaSt, wasmSt, wasm, loadedChunks,
                 loadedFilters, loadedFragments, fetches, engineLoaded, sq,
                 dataCalls, auxVars>>

\* lines 297-302: set_ranking_weights returns
SetRankingWeightsReturn(out) ==
  /\ initPc = "setRanking"
  /\ Returning("init", "set_ranking_weights")
  /\ EndCall("init")
  /\ running' = "none"
  /\ IF out = "ok"
     THEN /\ engineHandle' = engineHandle + 1
          /\ rawPtr' = engineHandle'
          /\ initPc' = "done"
     ELSE /\ initPc' = "failed"
          /\ UNCHANGED <<engineHandle, rawPtr>>
  /\ UNCHANGED <<ranking, entryResult, metaSt, wasmSt, wasm, loadedChunks,
                 loadedFilters, loadedFragments, fetches, engineLoaded,
                 callsBy, sq, dataCalls, auxVars>>


(***************************************************************************)
(* The chunk store                                                          *)
(***************************************************************************)
\* loadChunk / loadFilterChunkByHash / loadFragment, lines 441-443, 454-456,
\* 471-473: a hash without an entry gets the promise of a new load, whose
\* fetch is issued at once; a hash with an entry keeps it
EntryAfterLoad(map, hash) ==
  IF HasEntry(map, hash) \/ map[hash].gen >= MaxGen
  THEN map[hash]
  ELSE [gen |-> map[hash].gen + 1, st |-> "fetching", err |-> "none"]

\* the map after the load of every hash of hs was requested
MapAfterLoads(map, hs) ==
  [h \in DOMAIN map |-> IF h \in hs THEN EntryAfterLoad(map, h) ELSE map[h]]

\* the fetch() calls after the loads of hs were requested on map
FetchesAfterLoads(f, map, hs) ==
  [r \in DOMAIN f |->
     IF r \in hs /\ EntryAfterLoad(map, r) # map[r] THEN f[r] + 1 ELSE f[r]]

\* fetchAndDecompress, lines 433-438: how a response ends the load
FetchError(out) ==
  CASE out = "ok" -> "none"
    [] out \in {"httpError", "networkError"} -> "fetch"
    [] out = "corrupt" -> "decode"

FetchOutcomes == {"ok", "httpError", "networkError", "corrupt"}

\* _loadChunk, lines 448-450: the response of the index chunk arrives; on
\* success the bytes are passed to the engine
LoadChunkFetched(hash, out) ==
  /\ running = "none"
  /\ loadedChunks[hash].st = "fetching"
  /\ IF out = "ok"
     THEN /\ loadedChunks' = [loadedChunks EXCEPT ![hash].st = "loading"]
          /\ BeginCall(hash, "load_index_chunk")
     ELSE /\ loadedChunks' =
               [loadedChunks EXCEPT ![hash].st = "failed",
                                    ![hash].err = FetchError(out)]
          /\ UNCHANGED <<inFlight, callsBy, running>>
  /\ UNCHANGED <<ranking, initVars, wasm, rawPtr, loadedFilters,
                 loadedFragments, fetches, engineHandle, engineLoaded, sq,
                 dataCalls, auxVars>>

\* line 450: load_index_chunk returns the new handle
LoadIndexChunkReturn(hash, out) ==
  /\ loadedChunks[hash].st = "loading"
  /\ Returning(hash, "load_index_chunk")
  /\ EndCall(hash)
  /\ running' = "none"
  /\ IF out = "ok"
     THEN /\ engineHandle' = engineHandle + 1
          /\ engineLoaded' = engineLoaded \cup {hash}
          /\ rawPtr' = HandleAfterLoad(engineHandle')
          /\ loadedChunks' = [loadedChunks EXCEPT ![hash].st = "loaded"]
     ELSE /\ loadedChunks' =
               [loadedChunks EXCEPT ![hash].st = "failed",
                                    ![hash].err = "engine"]
          /\ UNCHANGED <<engineHandle, engineLoaded, rawPtr>>
  /\ UNCHANGED <<ranking, initVars, wasm, loadedFilters, loadedFragments,
                 fetches, callsBy, sq, dataCalls, auxVars>>

\* _loadFilterChunk, lines 461-463
LoadFilterChunkFetched(hash, out) ==
  /\ running = "none"
  /\ loadedFilters[hash].st = "fetching"
  /\ IF out = "ok"
     THEN /\ loadedFilters' = [loadedFilters EXCEPT ![hash].st = "loading"]
          /\ BeginCall(hash, "load_filter_chunk")
     ELSE /\ loadedFilters' =
               [loadedFilters EXCEPT ![hash].st = "failed",
                                     ![hash].err = FetchError(out)]
          /\ UNCHANGED <<inFlight, callsBy, running>>
  /\ UNCHANGED <<ranking, initVars, wasm, rawPtr, loadedChunks,
                 loadedFragments, fetches, engineHandle, engineLoaded, sq,
                 dataCalls, auxVars>>

\* line 463: load_filter_chunk returns the new handle
LoadFilterChunkReturn(hash, out) ==
  /\ loadedFilters[hash].st = "loading"
  /\ Returning(hash, "load_filter_chunk")
  /\ EndCall(hash)
  /\ running' = "none"
  /\ IF out = "ok"
     THEN /\ engineHandle' = engineHandle + 1
          /\ engineLoaded' = engineLoaded \cup {hash}
          /\ rawPtr' = HandleAfterLoad(engineHandle')
          /\ loadedFilters' = [loadedFilters EXCEPT ![hash].st = "loaded"]
     ELSE /\ loadedFilters' =
               [loadedFilters EXCEPT ![hash].st = "failed",
                                     ![hash].err = "engine"]
          /\ UNCHANGED <<engineHandle, engineLoaded, rawPtr>>
  /\ UNCHANGED <<ranking, initVars, wasm, loadedChunks, loadedFragments,
                 fetches, callsBy, sq, dataCalls, auxVars>>

(***************************************************************************)
(* search()                                                                 *)
(***************************************************************************)
\* line 316: the guard of search()
NotInitialized == ~wasm \/ rawPtr = NoHandle

\* line 337: the query is empty after normalization
ShortCircuitNever(norm) == FALSE
ShortCircuit(norm) == Len(norm) = 0

\* lines 316-351: the guard, the normalization, the short circuit, and the
\* call of request_indexes
SearchCall(s, term) ==
  /\ running = "none"
  /\ sq[s].pc = "idle"
  /\ LET norm == Normalize(term)
         called == [sq[s] EXCEPT !.initOk = initPc = "done"]
     IN IF NotInitialized
        THEN /\ sq' = [sq EXCEPT ![s] =
                         [called EXCEPT !.pc = "rejected",
                                        !.err = "notInitialized"]]
             /\ UNCHANGED <<inFlight, callsBy, running>>
        ELSE IF ShortCircuit(norm)
        THEN /\ sq' = [sq EXCEPT ![s] =
                         [called EXCEPT !.pc = "resolved",
                                        !.norm = norm,
                                        !.exact = ExactSearch(term),
                                        !.resp = <<EmptyResponse>>]]
             /\ UNCHANGED <<inFlight, callsBy, running>>
        ELSE /\ sq' = [sq EXCEPT ![s] =
                         [called EXCEPT !.pc = "requestIndexes",
                                        !.norm = norm,
                                        !.exact = ExactSearch(term)]]
             /\ BeginCall(s, "request_indexes")
  /\ UNCHANGED <<ranking, initVars, clientVars, fetches, engineHandle,
                 engineLoaded, dataCalls, auxVars>>

\* lines 351-352: request_indexes answers the index hashes the query needs;
\* request_filter_indexes is called
RequestIndexesReturn(s, out) ==
  /\ sq[s].pc = "requestIndexes"
  /\ Returning(s, "request_indexes")
  /\ IF out = {"throw"}
     THEN /\ sq' = [sq EXCEPT ![s].pc = "rejected", ![s].err = "engine"]
          /\ EndCall(s)
          /\ running' = "none"
          /\ UNCHANGED callsBy
     ELSE /\ sq' = [sq EXCEPT ![s].pc = "requestFilterIndexes",
                              ![s].needIdx = out]
          /\ inFlight' =
               {[by |-> s, op |-> "request_filter_indexes", ptr |-> rawPtr]}
                 \cup {c \in inFlight : c.by # s}
          /\ callsBy' = [callsBy EXCEPT ![s] = @ + 1]
          /\ running' = IF CallYields THEN "none" ELSE s
  /\ UNCHANGED <<ranking, initVars, clientVars, fetches, engineHandle,
                 engineLoaded, dataCalls, auxVars>>

\* lines 352-364: request_filter_indexes answers the filter hashes; every
\* needed chunk is requested from the chunk store and search() awaits them
RequestFilterIndexesReturn(s, out) ==
  /\ sq[s].pc = "requestFilterIndexes"
  /\ Returning(s, "request_filter_indexes")
  /\ EndCall(s)
  /\ running' = "none"
  /\ IF out = {"throw"}
     THEN /\ sq' = [sq EXCEPT ![s].pc = "rejected", ![s].err = "engine"]
          /\ UNCHANGED <<loadedChunks, loadedFilters, fetches>>
     ELSE /\ sq' = [sq EXCEPT ![s].pc = "awaitLoads", ![s].needFlt = out]
          /\ loadedChunks' = MapAfterLoads(loadedChunks, sq[s].needIdx)
          /\ loadedFilters' = MapAfterLoads(loadedFilters, out)
          /\ fetches' =
               FetchesAfterLoads(
                 FetchesAfterLoads(fetches, loadedChunks, sq[s].needIdx),
                 loadedFilters, out)
  /\ UNCHANGED <<ranking, initVars, wasm, rawPtr, loadedFragments,
                 engineHandle, engineLoaded, callsBy, dataCalls, auxVars>>

\* the promises search s awaits
Needed(s) ==
  {loadedChunks[h] : h \in sq[s].needIdx}
    \cup {loadedFilters[h] : h \in sq[s].needFlt}

\* line 364, Promise.all: rejected as soon as one promise is rejected
LoadsRejected(s) == \E e \in Needed(s) : e.st = "failed"

\* line 364, Promise.all: fulfilled when every promise is fulfilled
LoadsFulfilledWhenSettled(s) ==
  \A e \in Needed(s) : e.st \in {"loaded", "failed"}
LoadsFulfilled(s) == \A e \in Needed(s) : e.st = "loaded"

\* the needed chunks still being loaded
PendingOf(s) ==
  {h \in sq[s].needIdx : loadedChunks[h].st \in {"fetching", "loading"}}
    \cup {h \in sq[s].needFlt :
            loadedFilters[h].st \in {"fetching", "loading"}}

\* line 364: the loads that the rejection of Promise.all cancels: none, the
\* other promises are left to settle on their own
AbortedOnRejectPending(s) == PendingOf(s)
AbortedOnReject(s) == {}

\* the map with the loads of hs cancelled
MapAfterAbort(map, hs) ==
  [h \in DOMAIN map |->
     IF h \in hs THEN [map[h] EXCEPT !.st = "failed", !.err = "aborted"]
     ELSE map[h]]

\* lines 364-378: Promise.all settles; when it is fulfilled the engine's
\* search is called
SearchLoadsSettled(s) ==
  /\ running = "none"
  /\ sq[s].pc = "awaitLoads"
  /\ \/ /\ LoadsFulfilled(s)
        /\ sq' = [sq EXCEPT ![s].pc = "searching"]
        /\ BeginCall(s, "search")
        /\ UNCHANGED <<loadedChunks, loadedFilters>>
     \/ /\ ~LoadsFulfilled(s)
        /\ LoadsRejected(s)
        /\ sq' = [sq EXCEPT ![s].pc = "rejected", ![s].err = "load",
                            ![s].pendingAtReject = PendingOf(s)]
        /\ loadedChunks' = MapAfterAbort(loadedChunks, AbortedOnReject(s))
        /\ loadedFilters' = MapAfterAbort(loadedFilters, AbortedOnReject(s))
        /\ UNCHANGED <<inFlight, callsBy, running>>
  /\ UNCHANGED <<ranking, initVars, wasm, rawPtr, loadedFragments, fetches,
                 engineHandle, engineLoaded, dataCalls, auxVars>>

\* the elapsed times Date.now() may measure: <<preload, search>>
Elapsed == {<<0, 0>>, <<2, 1>>}

\* the set of the elements of a sequence
Range(seq) == {seq[i] : i \in 1..Len(seq)}

\* lines 401-406: the fragments search() itself loads for its results: none,
\* data is a closure that calls loadFragment when it is called
LoadedBySearchAll(results) == Range(results)
LoadedBySearch(results) == {}

\* lines 371-426: the engine's search returns; the response is built.  No
\* fragment is loaded: data is a closure over loadFragment
SearchReturn(s, reply, el) ==
  /\ sq[s].pc = "searching"
  /\ Returning(s, "search")
  /\ EndCall(s)
  /\ running' = "none"
  /\ IF reply = <<>>
     THEN /\ sq' = [sq EXCEPT ![s].pc = "rejected", ![s].err = "engine"]
          /\ UNCHANGED <<loadedFragments, fetches>>
     ELSE /\ loadedFragments' =
               MapAfterLoads(loadedFragments,
                             LoadedBySearch(reply[1].results))
          /\ fetches' =
               FetchesAfterLoads(fetches, loadedFragments,
                                 LoadedBySearch(reply[1].results))
          /\ sq' = [sq EXCEPT
                   ![s].pc = "resolved",
                   ![s].resp =
                     << [results |-> reply[1].results,
                         unfilteredResultCount |-> reply[1].count,
                         filters |-> reply[1].filters,
                         totalFilters |-> reply[1].totalFilters,
                         timings |-> [preload |-> el[1], search |-> el[2],
                                      total |-> el[1] + el[2]]] >>]
  /\ UNCHANGED <<ranking, initVars, wasm, rawPtr, loadedChunks,
                 loadedFilters, engineHandle, engineLoaded, callsBy,
                 dataCalls, auxVars>>

(***************************************************************************)
(* Fragments                                                                *)
(***************************************************************************)
\* the hashes of the results of a resolved search
ResultHashes(s) ==
  IF sq[s].pc = "resolved"
  THEN Range(sq[s].resp[1].results)
  ELSE {}

\* line 471: this.loadedFragments.has(hash)
HasFragmentValue(hash) == loadedFragments[hash].st = "loaded"
HasFragment(hash) == HasEntry(loadedFragments, hash)

\* lines 471-473: loadFragment keeps the promise of a hash that has one and
\* starts _loadFragment for a hash that has none
FragmentEntryAfterLoad(hash) ==
  IF HasFragment(hash) \/ loadedFragments[hash].gen >= MaxGen
  THEN loadedFragments[hash]
  ELSE [gen |-> loadedFragments[hash].gen + 1, st |-> "fetching",
        err |-> "none"]

\* lines 405, 466-474: result.data() calls loadFragment
DataCalled(s, hash) ==
  /\ running = "none"
  /\ hash \in ResultHashes(s)
  /\ dataCalls[hash] < MaxDataCalls
  /\ dataCalls' = [dataCalls EXCEPT ![hash] = @ + 1]
  /\ loadedFragments' =
       [loadedFragments EXCEPT ![hash] = FragmentEntryAfterLoad(hash)]
  /\ fetches' =
       [fetches EXCEPT ![hash] =
          IF FragmentEntryAfterLoad(hash) # loadedFragments[hash]
          THEN @ + 1 ELSE @]
  /\ UNCHANGED <<ranking, initVars, wasm, rawPtr, loadedChunks,
                 loadedFilters, engineVars, running, sq>>

Data(s, hash) == DataCalled(s, hash) /\ UNCHANGED auxVars

\* _loadFragment, lines 503-505: the fragment response arrives
FragmentArrived(hash, out) ==
  /\ running = "none"
  /\ loadedFragments[hash].st = "fetching"
  /\ loadedFragments' =
       IF out = "ok"
       THEN [loadedFragments EXCEPT ![hash].st = "loaded"]
       ELSE [loadedFragments EXCEPT ![hash].st = "failed",
                                    ![hash].err = FetchError(out)]
  /\ UNCHANGED <<ranking, initVars, wasm, rawPtr, loadedChunks,
                 loadedFilters, fetches, engineVars, running, sq, dataCalls>>

FragmentFetched(hash, out) == FragmentArrived(hash, out) /\ UNCHANGED auxVars

(***************************************************************************)
(* The specification                                                        *)
(***************************************************************************)
CallOutcomes == {"ok", "throw"}

Next ==
  \/ InitCall
  \/ \E out \in {"ok", "httpError", "networkError", "noLanguages"} :
       InitEntryFetched(out)
  \/ \E out \in FetchOutcomes : InitMetaFetched(out)
  \/ \E out \in FetchOutcomes : InitWasmFetched(out)
  \/ \E out \in {"ok", "compileError"} : InitInstantiated(out)
  \/ \E out \in CallOutcomes : InitPagefindReturn(out)
  \/ \E out \in CallOutcomes : SetRankingWeightsReturn(out)
  \/ \E s \in Searches, term \in Terms : SearchCall(s, term)
  \/ \E s \in Searches, out \in SUBSET IndexHashes \cup {{"throw"}} :
       RequestIndexesReturn(s, out)
  \/ \E s \in Searches, out \in SUBSET FilterHashes \cup {{"throw"}} :
       RequestFilterIndexesReturn(s, out)
  \/ \E s \in Searches : SearchLoadsSettled(s)
  \/ \E s \in Searches, reply \in {<<>>} \cup {<<r>> : r \in EngineReplies},
        el \in Elapsed :
       SearchReturn(s, reply, el)
  \/ \E h \in IndexHashes, out \in FetchOutcomes : LoadChunkFetched(h, out)
  \/ \E h \in IndexHashes, out \in CallOutcomes : LoadIndexChunkReturn(h, out)
  \/ \E h \in FilterHashes, out \in FetchOutcomes :
       LoadFilterChunkFetched(h, out)
  \/ \E h \in FilterHashes, out \in CallOutcomes :
       LoadFilterChunkReturn(h, out)
  \/ \E s \in Searches, h \in FragmentHashes : Data(s, h)
  \/ \E h \in FragmentHashes, out \in FetchOutcomes : FragmentFetched(h, out)

Spec == Init /\ [][Next]_vars


(***************************************************************************)
(* Properties                                                               *)
(***************************************************************************)
\* the promise of the chunk store for a chunk hash of either kind
Entry(h) == IF h \in IndexHashes THEN loadedChunks[h] ELSE loadedFilters[h]

\* the chunk hashes search s asked the chunk store for
NeededHashes(s) == sq[s].needIdx \cup sq[s].needFlt

\* the fetch and the decompression of chunk h succeeded
Decompressed(h) ==
  \/ Entry(h).st \in {"loading", "loaded"}
  \/ Entry(h).st = "failed" /\ Entry(h).err = "engine"

\* C1 as stated: once the load of a chunk has settled and its fetch did not
\* fail, the chunk was fetched exactly once and passed to the engine's load
\* call exactly once.
C1_FetchedImpliesLoadCall ==
  \A h \in ChunkHashes :
    (Entry(h).st \in {"loaded", "failed"} /\ Entry(h).err # "fetch")
      => fetches[h] = 1 /\ callsBy[h] = 1

\* C1, amended: for any number of load requests for the same (kind, hash) the
\* chunk is fetched at most once and passed to the engine at most once; a
\* chunk with a map entry was fetched exactly once; when the fetch and the
\* decompression succeed there is exactly one engine load call, and none
\* before that or when they fail; a map entry is never removed or replaced.
C1_LoadOnce ==
  /\ [](\A h \in ChunkHashes :
          /\ fetches[h] <= 1
          /\ callsBy[h] <= 1
          /\ Entry(h).gen # 0 => fetches[h] = 1
          /\ Entry(h).gen = 0 => fetches[h] = 0
          /\ Decompressed(h) => callsBy[h] = 1
          /\ ~Decompressed(h) => callsBy[h] = 0)
  /\ [][\A h \in ChunkHashes :
          Entry(h).gen # 0 => Entry(h)'.gen = Entry(h).gen]_vars

\* C1 witness: both searches asked for the same index chunk, which was
\* fetched once and loaded once, and both went on to the engine's search
C1_Witness ==
  /\ \A s \in Searches :
       sq[s].needIdx = {"i1"} /\ sq[s].pc \in {"searching", "resolved"}
  /\ loadedChunks["i1"].st = "loaded"
  /\ fetches["i1"] = 1
  /\ callsBy["i1"] = 1

\* C2: the engine's search is called for a query only after every index and
\* filter chunk the engine requested for it was passed to the engine's load
\* call; a search that needs a chunk whose load failed never calls the
\* engine's search (it made at most the two request calls) and does not
\* resolve.
C2_LoadsBeforeSearch ==
  \A s \in Searches :
    /\ (sq[s].pc \in {"searching", "resolved"} /\ sq[s].norm # <<>>)
         => NeededHashes(s) \subseteq engineLoaded
    /\ (\E h \in NeededHashes(s) : Entry(h).st = "failed")
         => /\ sq[s].pc \in {"requestFilterIndexes", "awaitLoads", "rejected"}
            /\ callsBy[s] <= 2
            /\ \A c \in inFlight : ~(c.by = s /\ c.op = "search")

\* C2 witness: the engine's search is in flight for a query that needed an
\* index chunk and a filter chunk
C2_Witness ==
  \E s \in Searches :
    /\ sq[s].pc = "searching"
    /\ sq[s].needIdx = {"i1"}
    /\ sq[s].needFlt = {"f1"}
    /\ \E c \in inFlight : c.by = s /\ c.op = "search"

\* C3: every engine call other than init_pagefind is passed the handle the
\* engine returned last, and between calls this.rawPtr is that handle.
C3_HandleThreaded ==
  /\ \A c \in inFlight :
       c.op # "init_pagefind" => c.ptr = engineHandle /\ c.ptr # NoHandle
  /\ (running = "none" /\ rawPtr # NoHandle) => rawPtr = engineHandle

\* C3 witness: the engine's search is called with the handle returned by the
\* second of two chunk loads
C3_Witness ==
  /\ engineLoaded = {"i1", "f1"}
  /\ \E c \in inFlight : c.op = "search" /\ c.ptr = engineHandle

\* C4: at most one engine call is in flight at any time, so no two mutating
\* calls (chunk load, ranking weights, search) overlap.
C4_Serialized ==
  /\ Cardinality({c \in inFlight : c.op \in MutatingOps}) <= 1
  /\ Cardinality(inFlight) <= 1

\* C4 witness: a chunk load call is in flight while one search awaits its
\* loads and another chunk is still being fetched
C4_Witness ==
  /\ \E c \in inFlight : c.op = "load_index_chunk"
  /\ loadedFilters["f1"].st = "fetching"
  /\ \A s \in Searches : sq[s].pc = "awaitLoads"

\* C5: when the fetch or the decompression of a chunk fails, no engine load
\* call is made for it, it is fetched exactly once (never again), and no
\* search that asked for it gets past awaiting it other than by rejecting.
C5_FailureShared ==
  \A h \in ChunkHashes :
    (Entry(h).st = "failed" /\ Entry(h).err \in {"fetch", "decode"})
      => /\ callsBy[h] = 0
         /\ h \notin engineLoaded
         /\ fetches[h] = 1
         /\ \A s \in Searches :
              h \in NeededHashes(s)
                => sq[s].pc \in
                     {"requestFilterIndexes", "awaitLoads", "rejected"}

\* C5 witness: the fetch of the index chunk failed and both searches, which
\* asked for it, were rejected by it
C5_Witness ==
  /\ loadedChunks["i1"].st = "failed"
  /\ loadedChunks["i1"].err \in {"fetch", "decode"}
  /\ \A s \in Searches :
       /\ "i1" \in sq[s].needIdx
       /\ sq[s].pc = "rejected"
       /\ sq[s].err = "load"

\* C6: a failed load does not abort the other loads: a step in which a
\* search rejects, or in which one chunk's load fails, changes no other
\* chunk's promise, and a loaded chunk stays loaded and known to the engine.
C6_NoAbort ==
  [][\A h \in ChunkHashes :
       /\ (\E s \in Searches : sq[s].pc # "rejected" /\ sq'[s].pc = "rejected")
            => Entry(h)' = Entry(h)
       /\ (\E h2 \in ChunkHashes :
             h2 # h /\ Entry(h2).st # "failed" /\ Entry(h2)'.st = "failed")
            => Entry(h)' = Entry(h)
       /\ Entry(h).st = "loaded"
            => Entry(h)'.st = "loaded" /\ h \in engineLoaded']_vars

\* C6 witness: a search was rejected by a failed chunk while another chunk
\* it asked for was still loading, and that chunk is now loaded
C6_Witness ==
  \E s \in Searches :
    /\ sq[s].pc = "rejected"
    /\ sq[s].err = "load"
    /\ \E h \in sq[s].pendingAtReject :
         Entry(h).st = "loaded" /\ h \in engineLoaded

\* C7: a search() called while init() has not completed successfully fails
\* with the not-initialized error and calls no engine operation.
C7_UninitializedRejects ==
  \A s \in Searches :
    (sq[s].pc # "idle" /\ ~sq[s].initOk)
      => /\ sq[s].pc = "rejected"
         /\ sq[s].err = "notInitialized"
         /\ callsBy[s] = 0

\* C8: when the manifest fetch returns a non-success status or the manifest
\* has no language, init() has failed, neither the meta file nor the engine
\* binary was fetched, no engine call was made and the client is
\* uninitialized.
C8_ManifestFailure ==
  entryResult \in {"httpError", "noLanguages"}
    => /\ initPc = "failed"
       /\ fetches["meta"] = 0
       /\ fetches["wasm"] = 0
       /\ callsBy["init"] = 0
       /\ inFlight = {}
       /\ engineHandle = 0
       /\ ~wasm
       /\ rawPtr = NoHandle

\* C8 witness: the manifest had no language and a search called afterwards
\* was rejected
C8_Witness ==
  /\ entryResult = "noLanguages"
  /\ initPc = "failed"
  /\ \E s \in Searches : sq[s].err = "notInitialized"

\* C9: a search on an initialized client whose query is empty after
\* normalization resolves at once with the empty response, having made no
\* engine call, and its step changes neither the handle, the chunk maps,
\* the fetches nor the engine.
C9_EmptyQuery ==
  /\ [](\A s \in Searches :
          (sq[s].pc # "idle" /\ sq[s].err # "notInitialized"
             /\ sq[s].norm = <<>>)
            => /\ sq[s].pc = "resolved"
               /\ sq[s].resp = <<EmptyResponse>>
               /\ callsBy[s] = 0)
  /\ [][(\E s \in Searches : sq[s].pc = "idle" /\ sq'[s].pc = "resolved")
          => UNCHANGED <<rawPtr, loadedChunks, loadedFilters,
                         loadedFragments, fetches, engineHandle,
                         engineLoaded, inFlight, callsBy>>]_vars

\* C9 witness: a search on the initialized client resolved with the empty
\* response while the other search, with a real query, awaits its chunks
C9_Witness ==
  \E s, t \in Searches :
    /\ sq[s].pc = "resolved" /\ sq[s].initOk /\ sq[s].norm = <<>>
    /\ sq[s].resp = <<EmptyResponse>>
    /\ sq[t].pc = "awaitLoads" /\ PendingOf(t) # {}

\* C10: a fragment is fetched only after data() was called on a result with
\* its hash.
C10_LazyFragments ==
  \A h \in FragmentHashes :
    (fetches[h] > 0 \/ loadedFragments[h].gen # 0) => dataCalls[h] > 0

\* C10 witness: both searches returned a result for the fragment, and it
\* was not fetched before data() was called; then it was fetched once
C10_Witness ==
  /\ \A s \in Searches : "g1" \in ResultHashes(s)
  /\ dataCalls["g1"] = 1
  /\ fetches["g1"] = 1

\* C11: for any number of data() calls for the same fragment hash the
\* fragment file is fetched at most once, exactly once as soon as data() was
\* called, and every call gets the promise of that one load: the entry of
\* loadedFragments is never removed or replaced.
C11_FragmentOnce ==
  /\ [](\A h \in FragmentHashes :
          /\ fetches[h] <= 1
          /\ dataCalls[h] > 0
               => fetches[h] = 1 /\ loadedFragments[h].gen = 1)
  /\ [][\A h \in FragmentHashes :
          loadedFragments[h].gen # 0
            => loadedFragments'[h].gen = loadedFragments[h].gen]_vars

\* C11 witness: data() was called twice for the fragment, once on a result
\* of each search, and it was fetched once
C11_Witness ==
  /\ \A s \in Searches : "g1" \in ResultHashes(s)
  /\ dataCalls["g1"] = 2
  /\ fetches["g1"] = 1
  /\ loadedFragments["g1"].st = "loaded"

(***************************************************************************)
(* Pure helpers: one call of a function on an argument drawn from a        *)
(* bounded set.  `pure.ret` is empty before the call and holds the result  *)
(* after it.                                                                *)
(***************************************************************************)
\* the calls not yet made, one per argument of args
PureInit(args) ==
  /\ ClientInit
  /\ ranking = FALSE
  /\ cached = [h \in FragmentHashes |-> <<>>]
  /\ dcall = <<>>
  /\ pure \in {[arg |-> a, ret |-> <<>>] : a \in args}
  /\ bridge = BridgeLoaded

\* the call returns result
PureReturn(result) ==
  /\ pure.ret = <<>>
  /\ pure' = [pure EXCEPT !.ret = <<result>>]
  /\ UNCHANGED <<mainVars, cached, dcall, bridge>>

Called == pure.ret # <<>>

(***************************************************************************)
(* calculateExcerptRegion, lines 54-88                                      *)
(***************************************************************************)
\* largest word offset of a matched location
MaxOffset == 4
\* largest balanced_score, a whole number here
MaxScore == 2
\* largest number of matched locations of one result
MaxLocs == 3
\* largest excerpt length (window size)
MaxWindow == 3

Max(a, b) == IF a >= b THEN a ELSE b
Min(a, b) == IF a <= b THEN a ELSE b

\* lines 60-63: words.length, one more than the highest matched offset
RECURSIVE WordsLength(_)
WordsLength(wordPositions) ==
  IF wordPositions = <<>> THEN 0
  ELSE Max(Head(wordPositions).location + 1, WordsLength(Tail(wordPositions)))

\* lines 60-63 and the `?? 0` of lines 69, 75: words[i], the summed
\* balanced_score of the locations at offset i, 0 for a hole or past the end
RECURSIVE WordAt(_, _)
WordAt(wordPositions, i) ==
  IF wordPositions = <<>> THEN 0
  ELSE (IF Head(wordPositions).location = i
        THEN Head(wordPositions).balanced_score ELSE 0)
       + WordAt(Tail(wordPositions), i)

\* lines 67-69: words.slice(0, n).reduce(sum)
RECURSIVE SumFirst(_, _)
SumFirst(wordPositions, n) ==
  IF n <= 0 THEN 0
  ELSE SumFirst(wordPositions, n - 1) + WordAt(wordPositions, n - 1)

\* lines 73-85: the loop from index i on; st is workingSum, densest, densestAt
RECURSIVE Slide(_, _, _, _)
Slide(wordPositions, excerptLength, i, st) ==
  IF i >= WordsLength(wordPositions) THEN st
  ELSE LET workingSum ==
             st.workingSum + WordAt(wordPositions, i + excerptLength)
               - WordAt(wordPositions, i)
           next ==
             IF workingSum > st.densest
             THEN [workingSum |-> workingSum, densest |-> workingSum,
                   densestAt |-> <<i>>]
             ELSE IF /\ workingSum = st.densest
                     /\ st.densestAt[Len(st.densestAt)] = i - 1
             THEN [workingSum |-> workingSum, densest |-> st.densest,
                   densestAt |-> Append(st.densestAt, i)]
             ELSE [st EXCEPT !.workingSum = workingSum]
       IN Slide(wordPositions, excerptLength, i + 1, next)

\* line 65: the whole span fits in one excerpt
SpanFitsStrictly(span, excerptLength) == span < excerptLength
SpanFits(span, excerptLength) == span <= excerptLength

CalculateExcerptRegion(wordPositions, excerptLength) ==
  IF Len(wordPositions) = 0 THEN 0
  ELSE IF SpanFits(WordsLength(wordPositions), excerptLength) THEN 0
  ELSE LET densest == SumFirst(wordPositions, excerptLength)
           end == Slide(wordPositions, excerptLength, 0,
                        [workingSum |-> densest, densest |-> densest,
                         densestAt |-> <<0>>])
       IN end.densestAt[(Len(end.densestAt) \div 2) + 1]

\* the matched locations of one result, in the engine's order (ascending
\* word offset), weights being 24ths
WeightedLocations ==
  [weight : {1}, balanced_score : 1..MaxScore, location : 0..MaxOffset]

LocationLists ==
  {wl \in UNION {[1..n -> WeightedLocations] : n \in 0..MaxLocs} :
     \A i \in 1..(Len(wl) - 1) : wl[i].location <= wl[i + 1].location}

RegionArgs ==
  [wordPositions : LocationLists, excerptLength : 1..MaxWindow]

InitRegion == PureInit(RegionArgs)

CallRegion ==
  PureReturn(CalculateExcerptRegion(pure.arg.wordPositions,
                                    pure.arg.excerptLength))

SpecRegion == InitRegion /\ [][CallRegion]_vars

\* the summed balanced_score of the locations in the window [s, s + n)
RECURSIVE WindowSum(_, _, _)
WindowSum(wordPositions, s, n) ==
  IF n <= 0 THEN 0
  ELSE WordAt(wordPositions, s) + WindowSum(wordPositions, s + 1, n - 1)

\* C17: when the span exceeds the window size, the window at the returned
\* start offset has the largest summed balanced_score of all window
\* positions.
C17_DensestWindow ==
  (Called /\ WordsLength(pure.arg.wordPositions) > pure.arg.excerptLength)
    => \A s \in 0..(WordsLength(pure.arg.wordPositions) - 1) :
         WindowSum(pure.arg.wordPositions, s, pure.arg.excerptLength)
           <= WindowSum(pure.arg.wordPositions, pure.ret[1],
                        pure.arg.excerptLength)

\* C18: for a non-empty location set whose word count (highest matched
\* offset + 1) is at most the window size, the result is 0.
C18_ShortSpanIsZero ==
  (/\ Called
   /\ pure.arg.wordPositions # <<>>
   /\ WordsLength(pure.arg.wordPositions) <= pure.arg.excerptLength)
    => pure.ret[1] = 0

\* C18 witness: a location at offset 2 (not 0) with a window of exactly the
\* word count 3, after the call
C18_Witness ==
  /\ Called
  /\ Len(pure.arg.wordPositions) = 1
  /\ pure.arg.wordPositions[1].location = 2
  /\ pure.arg.excerptLength = 3
  /\ pure.ret[1] = 0

(***************************************************************************)
(* buildExcerpt, lines 90-119.  A string is a sequence of characters; the  *)
(* marker literals <mark> and </mark> and the text of `undefined` are one  *)
(* element each.                                                            *)
(***************************************************************************)
\* largest number of words of a content
MaxTokens == 4

\* U+200B, which is neither matched by \s nor removed by trim()
ZWSP == "ZWSP"
MarkOpen == "<mark>"
MarkClose == "</mark>"
\* the text of String(undefined)
UndefinedText == "undefined"
\* an optional argument is absent, <<>>, or present, <<value>>
Undefined == <<>>

\* lines 100-101: content.split('\u200B') or content.split(/[\r\n\s]+/g),
\* from character i on; cur is the token being read, acc the tokens read
RECURSIVE SplitFrom(_, _, _, _, _)
SplitFrom(content, isZwsDelimited, i, cur, acc) ==
  IF i > Len(content) THEN Append(acc, cur)
  ELSE IF isZwsDelimited
  THEN IF content[i] = ZWSP
       THEN SplitFrom(content, isZwsDelimited, i + 1, <<>>, Append(acc, cur))
       ELSE SplitFrom(content, isZwsDelimited, i + 1,
                      Append(cur, content[i]), acc)
  ELSE IF IsSpace(content[i])
  THEN IF i > 1 /\ IsSpace(content[i - 1])
       THEN SplitFrom(content, isZwsDelimited, i + 1, cur, acc)
       ELSE SplitFrom(content, isZwsDelimited, i + 1, <<>>, Append(acc, cur))
  ELSE SplitFrom(content, isZwsDelimited, i + 1, Append(cur, content[i]), acc)

\* line 98: content.includes('\u200B')
IsZwsDelimited(content) == \E i \in 1..Len(content) : content[i] = ZWSP

\* lines 99-101
FragmentWords(content) ==
  SplitFrom(content, IsZwsDelimited(content), 1, <<>>, <<>>)

\* lines 103-106: one step of the loop; an assignment past the end extends
\* the array with holes, which slice() keeps and join() renders empty
MarkWord(fragmentWords, word) ==
  IF word + 1 <= Len(fragmentWords)
  THEN IF /\ fragmentWords[word + 1] # <<>>
          /\ fragmentWords[word + 1][1] = MarkOpen
       THEN fragmentWords
       ELSE [fragmentWords EXCEPT
               ![word + 1] = <<MarkOpen>> \o @ \o <<MarkClose>>]
  ELSE [i \in 1..(word + 1) |->
          IF i <= Len(fragmentWords) THEN fragmentWords[i]
          ELSE IF i = word + 1 THEN <<MarkOpen, UndefinedText, MarkClose>>
          ELSE <<>>]

RECURSIVE MarkWords(_, _)
MarkWords(fragmentWords, locations) ==
  IF locations = <<>> THEN fragmentWords
  ELSE MarkWords(MarkWord(fragmentWords, Head(locations)), Tail(locations))

\* Array.prototype.join
RECURSIVE Join(_, _)
Join(words, separator) ==
  IF words = <<>> THEN <<>>
  ELSE IF Len(words) = 1 THEN words[1]
  ELSE words[1] \o separator \o Join(Tail(words), separator)

\* Array.prototype.slice(start, end): negative indices count from the end
SliceIndex(len, k) == IF k < 0 THEN Max(len + k, 0) ELSE Min(k, len)
Slice(words, start, end) ==
  SubSeq(words, SliceIndex(Len(words), start) + 1,
         SliceIndex(Len(words), end))

\* line 112: shift the start so that the window ends at the end cap
StartKept(start, length, endcap) == start
StartShifted(start, length, endcap) ==
  IF start + length > endcap THEN endcap - length ELSE start

BuildExcerpt(content, start, length, locations, notBefore, notFrom) ==
  LET fragmentWords == MarkWords(FragmentWords(content), locations)
      endcap == IF notFrom = Undefined THEN Len(fragmentWords) ELSE notFrom[1]
      startcap == IF notBefore = Undefined THEN 0 ELSE notBefore[1]
      length1 == IF endcap - startcap < length THEN endcap - startcap
                 ELSE length
      start1 == StartShifted(start, length1, endcap)
      start2 == IF start1 < startcap THEN startcap ELSE start1
  IN Trim(Join(Slice(fragmentWords, start2, start2 + length1),
               IF IsZwsDelimited(content) THEN <<>> ELSE <<" ">>))

\* the words of the contents
Letters == <<"a", "b", "c", "d", "e", "f", "g", "h">>
\* the delimiters between two words of a content
Delimiters == {<<" ">>, <<" ", "\n">>, <<ZWSP>>}

Contents ==
  {Join([i \in 1..n |-> <<Letters[i]>>], d) :
     n \in 1..MaxTokens, d \in Delimiters}

\* the calls of buildExcerpt: any start and length, matched offsets inside
\* the content, bounds absent or inside the token range, notBefore <= notFrom
ExcerptArgs ==
  {a \in [content : Contents, start : 0..(MaxTokens + 1),
          length : 0..(MaxWindow + 2),
          locations : {<<>>, <<0>>, <<0, 1>>},
          notBefore : {Undefined} \cup {<<k>> : k \in 0..MaxTokens},
          notFrom : {Undefined} \cup {<<k>> : k \in 0..MaxTokens}] :
     LET n == Len(FragmentWords(a.content))
     IN /\ \A i \in 1..Len(a.locations) : a.locations[i] < n
        /\ a.notFrom # Undefined => a.notFrom[1] <= n
        /\ a.notBefore # Undefined => a.notBefore[1] <= n
        /\ (a.notBefore # Undefined /\ a.notFrom # Undefined)
             => a.notBefore[1] <= a.notFrom[1]}

InitExcerpt == PureInit(ExcerptArgs)

CallExcerpt ==
  PureReturn(BuildExcerpt(pure.arg.content, pure.arg.start, pure.arg.length,
                          pure.arg.locations, pure.arg.notBefore,
                          pure.arg.notFrom))

SpecExcerpt == InitExcerpt /\ [][CallExcerpt]_vars

\* the tokens of the call, highlighted, and its bounds with their defaults
ArgTokens == MarkWords(FragmentWords(pure.arg.content), pure.arg.locations)
LowerBound ==
  IF pure.arg.notBefore = Undefined THEN 0 ELSE pure.arg.notBefore[1]
UpperBound ==
  IF pure.arg.notFrom = Undefined THEN Len(ArgTokens) ELSE pure.arg.notFrom[1]

\* the text of the tokens at indices [s, s + n)
TokensText(s, n) ==
  Trim(Join(SubSeq(ArgTokens, s + 1, s + n),
            IF IsZwsDelimited(pure.arg.content) THEN <<>> ELSE <<" ">>))

\* C19: buildExcerpt emits the tokens at [s, s + n) with
\* n = min(length, upperBound - lowerBound), lowerBound <= s and
\* s + n <= upperBound.
C19_WindowClamped ==
  Called =>
    LET n == Min(pure.arg.length, UpperBound - LowerBound)
    IN \E s \in LowerBound..(UpperBound - n) : pure.ret[1] = TokensText(s, n)

\* C19 witness: a window of 5 tokens starting at 3 was asked of the bounded
\* range [1, 3) of a four-word content and exactly tokens 1 and 2 came out
C19_Witness ==
  /\ Called
  /\ pure.arg.content = <<"a", " ", "b", " ", "c", " ", "d">>
  /\ pure.arg.locations = <<>>
  /\ pure.arg.start = 3
  /\ pure.arg.length = 5
  /\ pure.arg.notBefore = <<1>>
  /\ pure.arg.notFrom = <<3>>
  /\ pure.ret[1] = <<"b", " ", "c">>

(***************************************************************************)
(* calculateSubResults, lines 121-204                                       *)
(***************************************************************************)
Digits == {"0", "1", "2", "3", "4", "5", "6", "7", "8", "9"}

\* line 127: /h\d/i.test(a.element) && a.text?.length && /\S/.test(a.text)
IsHeadingAnchor(a) ==
  /\ \E i \in 1..(Len(a.element) - 1) :
       a.element[i] \in {"h", "H"} /\ a.element[i + 1] \in Digits
  /\ Len(a.text) > 0
  /\ \E i \in 1..Len(a.text) : ~IsSpace(a.text[i])

\* line 129: Array.prototype.sort by location, which is stable
RECURSIVE InsertAnchor(_, _)
InsertAnchor(sorted, a) ==
  IF sorted = <<>> THEN <<a>>
  ELSE IF sorted[Len(sorted)].location <= a.location THEN Append(sorted, a)
  ELSE Append(InsertAnchor(SubSeq(sorted, 1, Len(sorted) - 1), a),
              sorted[Len(sorted)])

RECURSIVE SortAnchors(_)
SortAnchors(anchors) ==
  IF anchors = <<>> THEN <<>>
  ELSE InsertAnchor(SortAnchors(SubSeq(anchors, 1, Len(anchors) - 1)),
                    anchors[Len(anchors)])

\* lines 125-129
HeadingAnchors(fragment) ==
  SortAnchors(SelectSeq(fragment.anchors, IsHeadingAnchor))

\* lines 143-147: a location relative to the section's anchor
RelativeWeighted(weighted, currentAnchorPosition) ==
  [i \in 1..Len(weighted) |->
     [weight |-> weighted[i].weight,
      balanced_score |-> weighted[i].balanced_score,
      location |-> weighted[i].location - currentAnchorPosition]]

\* lines 141-164: addResult; endRange is absent, <<>>, or <<offset>>, and
\* `endRange ?` is false for the offset 0 too
AddResult(st, fragment, desiredExcerptLength, endRange) ==
  IF st.currentAnchor.locations = <<>> THEN st
  ELSE LET excerptStart ==
             CalculateExcerptRegion(
               RelativeWeighted(st.currentAnchor.weighted_locations,
                                st.currentAnchorPosition),
               desiredExcerptLength) + st.currentAnchorPosition
           excerptLength ==
             IF endRange # Undefined /\ endRange[1] # 0
             THEN Min(endRange[1] - excerptStart, desiredExcerptLength)
             ELSE desiredExcerptLength
           excerpt ==
             BuildExcerpt(fragment.raw_content, excerptStart, excerptLength,
                          st.currentAnchor.locations,
                          <<st.currentAnchorPosition>>, endRange)
       IN [st EXCEPT !.results =
             Append(@, [st.currentAnchor EXCEPT !.excerpt = excerpt])]

\* lines 175-177: drop the anchors at or before the word
RECURSIVE SkipAnchors(_, _, _)
SkipNoAnchors(nextAnchor, anchors, word) ==
  [nextAnchor |-> nextAnchor, anchors |-> anchors]
SkipAnchors(nextAnchor, anchors, word) ==
  IF anchors # <<>> /\ word.location >= anchors[1].location
  THEN SkipAnchors(anchors[1], Tail(anchors), word)
  ELSE [nextAnchor |-> nextAnchor, anchors |-> anchors]

\* lines 179-189: the url with the anchor's id as its fragment identifier;
\* a url is a sequence of its parts
AnchoredUrl(url, id) ==
  IF url # <<>> /\ url[1] \in {"https://", "http://", "//"}
  THEN url \o <<"#", id>>
  ELSE (IF url # <<>> /\ url[1] = "/" THEN url ELSE <<"/">> \o url)
       \o <<"#", id>>

\* lines 166-200: the loop over the weighted locations from index i on
RECURSIVE Segment(_, _, _, _)
Segment(st, fragment, desiredExcerptLength, i) ==
  IF i > Len(fragment.weighted_locations) THEN st
  ELSE LET word == fragment.weighted_locations[i]
       IN IF st.anchors = <<>> \/ word.location < st.anchors[1].location
          THEN Segment(
                 [st EXCEPT
                    !.currentAnchor.weighted_locations = Append(@, word),
                    !.currentAnchor.locations = Append(@, word.location)],
                 fragment, desiredExcerptLength, i + 1)
          ELSE LET added == AddResult(st, fragment, desiredExcerptLength,
                                      <<st.anchors[1].location>>)
                   skipped == SkipAnchors(st.anchors[1], Tail(st.anchors),
                                          word)
               IN Segment(
                    [anchors |-> skipped.anchors,
                     results |-> added.results,
                     currentAnchorPosition |-> skipped.nextAnchor.location,
                     currentAnchor |->
                       [title |-> skipped.nextAnchor.text,
                        url |-> AnchoredUrl(fragment.url,
                                            skipped.nextAnchor.id),
                        anchor |-> <<skipped.nextAnchor>>,
                        weighted_locations |-> <<word>>,
                        locations |-> <<word.location>>,
                        excerpt |-> <<>>]],
                    fragment, desiredExcerptLength, i + 1)

CalculateSubResults(fragment, desiredExcerptLength) ==
  LET start == [anchors |-> HeadingAnchors(fragment),
                results |-> <<>>,
                currentAnchorPosition |-> 0,
                currentAnchor |->
                  [title |-> fragment.meta.title,
                   url |-> fragment.url,
                   anchor |-> <<>>,
                   weighted_locations |-> <<>>,
                   locations |-> <<>>,
                   excerpt |-> <<>>]]
      end == Segment(start, fragment, desiredExcerptLength, 1)
  IN AddResult(end, fragment, desiredExcerptLength,
               IF end.anchors = <<>> THEN Undefined
               ELSE <<end.anchors[1].location>>).results

\* the anchors of a page: headings, a heading without text, another element
AnchorKinds ==
  {[element |-> <<"h", "2">>, text |-> <<"T">>],
   [element |-> <<"h", "3">>, text |-> <<" ">>],
   [element |-> <<"d", "i", "v">>, text |-> <<"T">>]}

Anchors ==
  {[element |-> k.element, id |-> "id", text |-> k.text, location |-> l] :
     k \in AnchorKinds, l \in 0..MaxOffset}

\* no anchor, one, or two in any order
AnchorLists ==
  {<<>>} \cup {<<a>> : a \in Anchors} \cup {<<a, b>> : a, b \in Anchors}

\* the fetched page: its words are the offsets 0..MaxOffset
PageContent ==
  Join([i \in 1..(MaxOffset + 1) |-> <<Letters[i]>>], <<" ">>)

\* the fragment loadFragment hands to calculateSubResults (lines 476-498),
\* its weighted locations in the engine's order
Fragments ==
  {[url |-> <<"/", "page">>,
    meta |-> [title |-> <<"P">>],
    raw_content |-> PageContent,
    anchors |-> al,
    weighted_locations |-> wl] :
     al \in AnchorLists,
     wl \in {l \in LocationLists :
               \A i \in 1..Len(l) : l[i].balanced_score = 1}}

SubResultArgs == [fragment : Fragments, desiredExcerptLength : {MaxWindow}]

InitSubResults == PureInit(SubResultArgs)

CallSubResults ==
  PureReturn(CalculateSubResults(pure.arg.fragment,
                                 pure.arg.desiredExcerptLength))

SpecSubResults == InitSubResults /\ [][CallSubResults]_vars

\* the offsets of the heading anchors of the fragment of the call
HeadingOffsets ==
  {pure.arg.fragment.anchors[i].location :
     i \in {j \in 1..Len(pure.arg.fragment.anchors) :
              IsHeadingAnchor(pure.arg.fragment.anchors[j])}}

\* the offset range [lo, hi) of an emitted sub-result; hi is one past the
\* last offset when no anchor follows
RangeLo(sub) == IF sub.anchor = <<>> THEN 0 ELSE sub.anchor[1].location
RangeHi(sub) ==
  LET later == IF sub.anchor = <<>> THEN HeadingOffsets
               ELSE {h \in HeadingOffsets : h > RangeLo(sub)}
  IN IF later = {} THEN MaxOffset + 1
     ELSE CHOOSE h \in later : \A g \in later : h <= g

RECURSIVE Flatten(_)
Flatten(seqs) ==
  IF seqs = <<>> THEN <<>> ELSE Head(seqs) \o Flatten(Tail(seqs))

\* C20: every matched location is in exactly one emitted sub-result, each
\* sub-result holds exactly the matches of its own range, the sub-results
\* come in ascending offset order and none is empty.
C20_Segmented ==
  Called =>
    LET results == pure.ret[1]
        weighted == pure.arg.fragment.weighted_locations
    IN /\ Flatten([i \in 1..Len(results) |->
                     results[i].weighted_locations]) = weighted
       /\ \A i \in 1..Len(results) :
            /\ results[i].weighted_locations =
                 SelectSeq(weighted,
                           LAMBDA w : /\ RangeLo(results[i]) <= w.location
                                      /\ w.location < RangeHi(results[i]))
            /\ results[i].locations =
                 [k \in 1..Len(results[i].weighted_locations) |->
                    results[i].weighted_locations[k].location]
            /\ results[i].locations # <<>>
            /\ results[i].anchor # <<>>
                 => IsHeadingAnchor(results[i].anchor[1])
       /\ \A i \in 1..(Len(results) - 1) :
            /\ RangeLo(results[i]) < RangeLo(results[i + 1])
            /\ results[i + 1].anchor # <<>>

\* C20 witness: two headings at offsets 1 and 3, matches at 0, 2 and 4:
\* three sections came out, each with its own match
C20_Witness ==
  /\ Called
  /\ HeadingOffsets = {1, 3}
  /\ Len(pure.arg.fragment.weighted_locations) = 3
  /\ Len(pure.ret[1]) = 3
  /\ pure.ret[1][1].locations = <<0>>
  /\ pure.ret[1][2].locations = <<2>>
  /\ pure.ret[1][3].locations = <<4>>

(***************************************************************************)
(* decompress, lines 36-48.  Bytes are one-character strings; a gzip       *)
(* stream is its two magic bytes followed by the deflated body, and the    *)
(* deflated body of a payload is the payload written backwards.            *)
(***************************************************************************)
\* largest number of bytes of a payload behind the signature
MaxPayload == 2

SIGNATURE == <<"p", "a", "g", "e", "f", "i", "n", "d", "_", "d", "c", "d">>
SignatureLength == 12

GzipMagic == <<"1f", "8b">>

Reverse(bytes) == [i \in 1..Len(bytes) |-> bytes[Len(bytes) + 1 - i]]

\* the compressor that wrote the files
Gzip(bytes) == GzipMagic \o Reverse(bytes)

\* line 41: gunzipSync throws on a stream that is not gzip
Gunzip(data) ==
  IF Len(data) >= Len(GzipMagic) /\ SubSeq(data, 1, Len(GzipMagic)) = GzipMagic
  THEN [ok |-> TRUE,
        bytes |-> Reverse(SubSeq(data, Len(GzipMagic) + 1, Len(data)))]
  ELSE [ok |-> FALSE, bytes |-> <<>>]

\* lines 38, 43: decoder.decode(data.slice(0, 12)) === SIGNATURE
HasSignature(data) == Slice(data, 0, SignatureLength) = SIGNATURE

\* line 38: the check made before inflating
NeverRaw(data) == FALSE
AlreadyRaw(data) == HasSignature(data)

\* lines 43-47: the inflated bytes without their signature
InflatedKept(result) == result
InflatedStripped(result) ==
  IF ~HasSignature(result) THEN result
  ELSE Slice(result, SignatureLength, Len(result))

Decompress(data) ==
  IF AlreadyRaw(data)
  THEN [ok |-> TRUE, bytes |-> Slice(data, SignatureLength, Len(data))]
  ELSE LET decompressed == Gunzip(data)
       IN IF ~decompressed.ok THEN decompressed
          ELSE [ok |-> TRUE, bytes |-> InflatedStripped(decompressed.bytes)]

\* payloads: short byte strings, some of them gzip streams themselves
PlainPayloads ==
  UNION {[1..n -> {"x", "y"}] : n \in 0..MaxPayload}
Payloads == PlainPayloads \cup {Gzip(p) : p \in PlainPayloads}

\* the plaintexts a file is made of: with the signature, without it, or
\* with a cut signature
Plaintexts ==
  Payloads \cup {SIGNATURE \o p : p \in Payloads}
    \cup {SubSeq(SIGNATURE, 1, SignatureLength - 1) \o p : p \in Payloads}

\* the byte strings a fetch delivers: a plaintext as it is or compressed
ByteStrings == Plaintexts \cup {Gzip(t) : t \in Plaintexts}

InitDecompress == PureInit(ByteStrings)

CallDecompress == PureReturn(Decompress(pure.arg))

SpecDecompress == InitDecompress /\ [][CallDecompress]_vars

\* the first 12 bytes of b are the signature
Signed(b) ==
  Len(b) >= SignatureLength /\ SubSeq(b, 1, SignatureLength) = SIGNATURE
\* b without its first 12 bytes
Rest(b) == SubSeq(b, SignatureLength + 1, Len(b))

\* C15: a signed b gives b[12:] without inflation (a signed gzip stream
\* comes back compressed, signed garbage is no error); any other b is
\* inflated, and the inflated bytes lose their signature when they have one
\* and are returned unchanged when they have none; inflating bytes that are
\* no gzip stream fails.
C15_Decompress ==
  Called =>
    IF Signed(pure.arg)
    THEN pure.ret[1] = [ok |-> TRUE, bytes |-> Rest(pure.arg)]
    ELSE /\ \A t \in ByteStrings :
              pure.arg = Gzip(t)
                => pure.ret[1] =
                     [ok |-> TRUE, bytes |-> IF Signed(t) THEN Rest(t) ELSE t]
         /\ (\A t \in ByteStrings : pure.arg # Gzip(t)) => ~pure.ret[1].ok

\* C15 witness: the signature followed by a gzip stream came back as that
\* stream, still compressed
C15_Witness ==
  /\ Called
  /\ pure.arg = SIGNATURE \o Gzip(<<"x", "y">>)
  /\ pure.ret[1] = [ok |-> TRUE, bytes |-> Gzip(<<"x", "y">>)]

\* C16 as stated: for a payload p that starts with the signature,
\* decompress(gzip(p)) = p.
C16_RoundTripWhole ==
  Called =>
    \A p \in Plaintexts :
      (Signed(p) /\ pure.arg = Gzip(p))
        => pure.ret[1] = [ok |-> TRUE, bytes |-> p]

\* C16 amended: for every payload p, decompress(gzip(signature ++ p)) = p.
C16_RoundTripPayload ==
  Called =>
    \A p \in Payloads :
      pure.arg = Gzip(SIGNATURE \o p)
        => pure.ret[1] = [ok |-> TRUE, bytes |-> p]

\* C16 witness: the compressed signed payload xy was decompressed to xy
C16_Witness ==
  /\ Called
  /\ pure.arg = Gzip(SIGNATURE \o <<"x", "y">>)
  /\ pure.ret[1].bytes = <<"x", "y">>

(***************************************************************************)
(* Parsing of the engine's answers: parseInt, parseFloat, String.split,    *)
(* parseFilters (lines 210-230) and the parse of the search response       *)
(* (lines 380-408, 415-418).  The delimiter literals are one element each. *)
(***************************************************************************)
UNFILTERED_DELIM == "__PF_UNFILTERED_DELIM__"
FILTER_DELIM == "__PF_FILTER_DELIM__"
VALUE_DELIM == "__PF_VALUE_DELIM__"

DigitChars == <<"0", "1", "2", "3", "4", "5", "6", "7", "8", "9">>
DigitValue(c) == CHOOSE k \in 0..9 : DigitChars[k + 1] = c

\* the number NaN; a number n is <<n>>
NaN == <<>>

\* String.prototype.split(separator) for a one-element separator, from
\* character i on
RECURSIVE SplitAt(_, _, _, _, _)
SplitAt(s, separator, i, cur, acc) ==
  IF i > Len(s) THEN Append(acc, cur)
  ELSE IF s[i] = separator
  THEN SplitAt(s, separator, i + 1, <<>>, Append(acc, cur))
  ELSE SplitAt(s, separator, i + 1, Append(cur, s[i]), acc)

SplitOn(s, separator) == SplitAt(s, separator, 1, <<>>, <<>>)

\* the indices of the elements of s that are c
IndicesOf(s, c) == {i \in 1..Len(s) : s[i] = c}
Least(S) == CHOOSE x \in S : \A y \in S : x <= y
Greatest(S) == CHOOSE x \in S : \A y \in S : x >= y

\* the length of the prefix of s made of digits
RECURSIVE DigitRun(_)
DigitRun(s) ==
  IF s # <<>> /\ s[1] \in Digits THEN 1 + DigitRun(Tail(s)) ELSE 0

\* the value of a string of digits
RECURSIVE DigitsValue(_)
DigitsValue(s) ==
  IF s = <<>> THEN 0
  ELSE 10 * DigitsValue(SubSeq(s, 1, Len(s) - 1)) + DigitValue(s[Len(s)])

\* parseInt(s) in radix 10: leading whitespace and one sign are skipped, the
\* digits that follow are the value, anything after them is ignored; an
\* absent argument is Undefined
ParseInt(s) ==
  IF s = Undefined THEN NaN
  ELSE LET t == TrimStart(s)
           negative == t # <<>> /\ t[1] = "-"
           u == IF t # <<>> /\ t[1] \in {"-", "+"} THEN Tail(t) ELSE t
           n == DigitRun(u)
       IN IF n = 0 THEN NaN
          ELSE <<(IF negative THEN -1 ELSE 1) * DigitsValue(SubSeq(u, 1, n))>>

\* the fraction digits without their trailing zeros
RECURSIVE StripZeros(_)
StripZeros(s) ==
  IF s # <<>> /\ s[Len(s)] = "0" THEN StripZeros(SubSeq(s, 1, Len(s) - 1))
  ELSE s

\* parseFloat(s) for unsigned decimals without exponent: the number is its
\* whole part and its fraction digits
ParseFloat(s) ==
  IF s = Undefined THEN NaN
  ELSE LET t == TrimStart(s)
           n == DigitRun(t)
           rest == SubSeq(t, n + 1, Len(t))
           m == IF rest # <<>> /\ rest[1] = "." THEN DigitRun(Tail(rest))
                ELSE 0
       IN IF n = 0 /\ m = 0 THEN NaN
          ELSE <<[whole |-> DigitsValue(SubSeq(t, 1, n)),
                  frac |-> StripZeros(SubSeq(rest, 2, m + 1))]>>

\* an object without keys
EmptyObject == [k \in {} |-> {}]
\* obj[key] = value
WithKey(obj, key, value) ==
  [k \in DOMAIN obj \cup {key} |-> IF k = key THEN value ELSE obj[k]]

\* `.` of a regular expression matches no line terminator
NoLineBreak(s) == \A i \in 1..Len(s) : s[i] \notin {"\n", "\r"}

\* line 220: the colon at which /^(.*):(\d+)$/ cuts a value block, the last
\* one; 0 when there is none
FirstColon(valueBlock) ==
  IF IndicesOf(valueBlock, ":") = {} THEN 0
  ELSE Least(IndicesOf(valueBlock, ":"))
CountColon(valueBlock) ==
  IF IndicesOf(valueBlock, ":") = {} THEN 0
  ELSE Greatest(IndicesOf(valueBlock, ":"))

\* lines 218-226: the values of one filter; a value block is taken when it
\* matches /^(.*):(\d+)$/
RECURSIVE FilterValues(_, _)
FilterValues(valueBlocks, acc) ==
  IF valueBlocks = <<>> THEN acc
  ELSE LET valueBlock == Head(valueBlocks)
           last == CountColon(valueBlock)
           value == SubSeq(valueBlock, 1, last - 1)
           count == SubSeq(valueBlock, last + 1, Len(valueBlock))
       IN IF /\ last # 0
             /\ count # <<>>
             /\ DigitRun(count) = Len(count)
             /\ NoLineBreak(value)
          THEN FilterValues(Tail(valueBlocks),
                            WithKey(acc, value, ParseInt(count)[1]))
          ELSE FilterValues(Tail(valueBlocks), acc)

\* lines 214-227: the loop over the blocks; block.split(/:(.*)$/) cuts at
\* the first colon that no line terminator follows
RECURSIVE FilterBlocks(_, _)
FilterBlocks(blocks, output) ==
  IF blocks = <<>> THEN output
  ELSE LET block == Head(blocks)
           colons == {i \in IndicesOf(block, ":") :
                        NoLineBreak(SubSeq(block, i + 1, Len(block)))}
           first == IF colons = {} THEN 0 ELSE Least(colons)
           filter == IF first = 0 THEN block ELSE SubSeq(block, 1, first - 1)
           values == IF first = 0 THEN <<>>
                     ELSE SubSeq(block, first + 1, Len(block))
       IN FilterBlocks(
            Tail(blocks),
            WithKey(output, filter,
                    IF values = <<>> THEN EmptyObject
                    ELSE FilterValues(SplitOn(values, VALUE_DELIM),
                                      EmptyObject)))

\* lines 210-230; an absent or empty string gives the empty object
ParseFilters(str) ==
  IF str = <<>> THEN EmptyObject
  ELSE FilterBlocks(SplitOn(str, FILTER_DELIM), EmptyObject)

\* the i-th part of a destructured split, Undefined when it is missing
Part(parts, i) == IF i <= Len(parts) THEN parts[i] ELSE Undefined

\* lines 391-398: one weighted location; the weight is counted in 24ths
ParseLocation(l) ==
  LET parts == SplitOn(l, ">")
  IN [weight |-> ParseInt(Part(parts, 1)),
      balanced_score |-> ParseFloat(Part(parts, 2)),
      location |-> ParseInt(Part(parts, 3))]

\* lines 388-407: one result; reading the length of a missing third part
\* throws
ParseResult(r) ==
  LET parts == SplitOn(r, "@")
      weightedLocations ==
        IF parts[3] = <<>> THEN <<>>
        ELSE LET ls == SplitOn(parts[3], ",")
             IN [i \in 1..Len(ls) |-> ParseLocation(ls[i])]
  IN IF Len(parts) < 3 THEN [ok |-> FALSE]
     ELSE [ok |-> TRUE,
           id |-> parts[1],
           score |-> ParseFloat(parts[2]),
           words |-> [i \in 1..Len(weightedLocations) |->
                        weightedLocations[i].location],
           weightedLocations |-> weightedLocations]

\* line 388: the entries of the result list
FirstEntry(allResults) == SubSeq(SplitOn(allResults, " "), 1, 1)
Entries(allResults) == SplitOn(allResults, " ")

\* lines 380-408 and 415-418: the response of search() for the engine's
\* answer rawResult; ok is FALSE when the parse throws
ParseResponse(rawResult) ==
  LET colons == IndicesOf(rawResult, ":")
      Following(i) == Least({j \in colons : j > i})
      DelimsAfter(j) ==
        {d \in IndicesOf(rawResult, UNFILTERED_DELIM) : d > j}
      \* the colons at which the regular expression of line 382 matches
      starts ==
        {i \in colons :
           /\ \E j \in colons : j > i
           /\ DelimsAfter(Following(i)) # {}
           /\ NoLineBreak(SubSeq(rawResult, Following(i) + 1,
                                 Len(rawResult)))}
      matches == starts # {}
      c1 == Least(starts)
      c2 == Following(c1)
      d == Greatest(DelimsAfter(c2))
      unfilteredStr == SubSeq(rawResult, 1, c1 - 1)
      allResults == SubSeq(rawResult, c1 + 1, c2 - 1)
      filtersStr == SubSeq(rawResult, c2 + 1, d - 1)
      totalFiltersStr == SubSeq(rawResult, d + 1, Len(rawResult))
      entries == Entries(allResults)
      results ==
        IF allResults = <<>> THEN <<>>
        ELSE [i \in 1..Len(entries) |-> ParseResult(entries[i])]
  IN IF ~matches THEN [ok |-> FALSE]
     ELSE IF \E i \in 1..Len(results) : ~results[i].ok THEN [ok |-> FALSE]
     ELSE [ok |-> TRUE,
           results |-> results,
           unfilteredResultCount |-> ParseInt(unfilteredStr),
           filters |-> ParseFilters(filtersStr),
           totalFilters |-> ParseFilters(totalFiltersStr)]

\* the text of a natural number
RECURSIVE ToDigits(_)
ToDigits(n) ==
  IF n < 10 THEN <<DigitChars[n + 1]>>
  ELSE ToDigits(n \div 10) \o <<DigitChars[(n % 10) + 1]>>

\* the engine's text of a location, weight>balancedScore>wordOffset
FormatLocation(l) ==
  ToDigits(l.weight) \o <<">">> \o l.balancedScore \o <<">">>
    \o ToDigits(l.location)

\* the engine's text of a result entry, hash@score@locations
FormatEntry(e) ==
  e.hash \o <<"@">> \o e.score \o <<"@">>
    \o Join([i \in 1..Len(e.locations) |-> FormatLocation(e.locations[i])],
            <<",">>)

\* the engine's text of a response
FormatResponse(p) ==
  ToDigits(p.unfilteredCount) \o <<":">>
    \o Join([i \in 1..Len(p.entries) |-> FormatEntry(p.entries[i])], <<" ">>)
    \o <<":">> \o p.filters \o <<UNFILTERED_DELIM>> \o p.totalFilters

\* lists of none, one or two elements of S
UpToTwo(S) == {<<>>} \cup {<<a>> : a \in S} \cup {<<a, b>> : a, b \in S}

EngineLocations ==
  {[weight |-> 24, balancedScore |-> <<"2">>, location |-> 12],
   [weight |-> 12, balancedScore |-> <<"0", ".", "5">>, location |-> 3]}

EngineEntries ==
  [hash : {<<"g", "1">>, <<"g", "2">>}, score : {<<"1", ".", "5">>},
   locations : UpToTwo(EngineLocations)]

FilterTexts ==
  {<<>>, <<"t", "a", "g", ":", "x", ":", "1">>}

\* the parts of the well-formed responses
EngineResponses ==
  [unfilteredCount : {0, 10}, entries : UpToTwo(EngineEntries),
   filters : FilterTexts, totalFilters : {<<>>}]

\* answers outside the grammar: no delimiter, a location without its
\* weight and score, a location without its offset, an entry without
\* locations part, an empty entry between two spaces, a count that is no
\* number, no text at all
MalformedResponses ==
  {<<"1", ":", "g", "1", "@", "1", "@", "2", "4", ">", "2", ">", "7", ":">>,
   <<"1", ":", "g", "1", "@", "1", "@", "7", ":", UNFILTERED_DELIM>>,
   <<"1", ":", "g", "1", "@", "1", "@", "2", "4", ">", "2", ":",
     UNFILTERED_DELIM>>,
   <<"1", ":", "g", "1", "@", "1", ":", UNFILTERED_DELIM>>,
   <<"2", ":", "g", "1", "@", "1", "@", " ", " ", "g", "2", "@", "1", "@",
     ":", UNFILTERED_DELIM>>,
   <<"x", ":", "g", "1", "@", "1", "@", "2", "4", ">", "2", ">", "7", ":",
     UNFILTERED_DELIM>>,
   <<>>}

\* the answers of the engine's search call: parts is <<p>> for the
\* well-formed answer made of the parts p and <<>> for a malformed one
ParseArgs ==
  {[parts |-> <<p>>, rawResult |-> FormatResponse(p)] : p \in EngineResponses}
    \cup {[parts |-> <<>>, rawResult |-> m] : m \in MalformedResponses}

InitParse == PureInit(ParseArgs)

CallParse == PureReturn(ParseResponse(pure.arg.rawResult))

SpecParse == InitParse /\ [][CallParse]_vars

\* C13: an engine response outside the grammar makes search() fail.
C13_MalformedFails ==
  (Called /\ pure.arg.parts = <<>>) => ~pure.ret[1].ok

\* C14: a well-formed response gives one result per entry, in the engine's
\* order, with the entry's hash as id and its word offsets as words.
C14_OneResultPerEntry ==
  (Called /\ pure.arg.parts # <<>>) =>
    LET entries == pure.arg.parts[1].entries
    IN /\ pure.ret[1].ok
       /\ Len(pure.ret[1].results) = Len(entries)
       /\ \A i \in 1..Len(entries) :
            /\ pure.ret[1].results[i].id = entries[i].hash
            /\ pure.ret[1].results[i].words =
                 [k \in 1..Len(entries[i].locations) |->
                    <<entries[i].locations[k].location>>]

\* C14 witness: the entries g2 (offsets 3, 12) and g1 (no offsets), in this
\* order, came out as two results in this order
C14_Witness ==
  /\ Called
  /\ pure.arg.parts # <<>>
  /\ Len(pure.ret[1].results) = 2
  /\ pure.ret[1].results[1].id = <<"g", "2">>
  /\ pure.ret[1].results[1].words = <<<<3>>, <<12>>>>
  /\ pure.ret[1].results[2].id = <<"g", "1">>
  /\ pure.ret[1].results[2].words = <<>>

(***************************************************************************)
(* loadFragment after the fragment promise is fulfilled, lines 474-499:    *)
(* the data() calls of two results that share the fragment g1              *)
(***************************************************************************)
\* line 248: the excerpt length of the client
ClientExcerptLength == MaxWindow

\* lines 481-483: .replace(/</g, '&lt;').replace(/>/g, '&gt;')
RECURSIVE EscapeAngles(_)
EscapeAngles(content) ==
  IF content = <<>> THEN <<>>
  ELSE (IF content[1] = "<" THEN <<"&", "l", "t", ";">>
        ELSE IF content[1] = ">" THEN <<"&", "g", "t", ";">>
        ELSE <<content[1]>>) \o EscapeAngles(Tail(content))

\* line 484: .replace(/\u200B/g, '')
StripZwsp(content) == SelectSeq(content, LAMBDA c : c # ZWSP)

\* lines 476-499: the enrichment of the working copy; a fragment without
\* raw_content has the empty raw_content
Enrich(fragment, weightedLocations, excerptLength) ==
  LET locations == [i \in 1..Len(weightedLocations) |->
                      weightedLocations[i].location]
      located == [fragment EXCEPT !.weighted_locations = weightedLocations,
                                  !.locations = locations]
      raw == IF located.raw_content = <<>>
             THEN [located EXCEPT !.raw_content = EscapeAngles(located.content),
                                  !.content = StripZwsp(located.content)]
             ELSE located
      excerptStart == CalculateExcerptRegion(weightedLocations, excerptLength)
      excerpted ==
        [raw EXCEPT !.excerpt =
           BuildExcerpt(raw.raw_content, excerptStart, excerptLength,
                        locations, Undefined, Undefined)]
  IN [excerpted EXCEPT !.sub_results =
        CalculateSubResults(excerpted, excerptLength)]

\* line 474: structuredClone: the enrichment writes to a copy, the object
\* the promise holds stays as it was; without the copy it would be the
\* object written to
StoredWhenShared(stored, written) == written
StoredAfterClone(stored, written) == stored

\* the fragment files of the page g1: with or without raw_content, with or
\* without a heading, with markup in the text
RawFragments ==
  {[url |-> <<"/", "page">>,
    meta |-> [title |-> <<"P">>],
    content |-> c.content,
    raw_content |-> c.raw_content,
    anchors |-> a,
    weighted_locations |-> <<>>,
    locations |-> <<>>,
    excerpt |-> <<>>,
    sub_results |-> <<>>] :
     c \in {[content |-> PageContent, raw_content |-> <<>>],
            [content |-> PageContent, raw_content |-> PageContent],
            [content |-> <<"<", "b", ">", ZWSP, "c">>, raw_content |-> <<>>]},
     a \in {<<>>,
            <<[element |-> <<"h", "2">>, id |-> "id", text |-> <<"T">>,
               location |-> 1]>>}}

\* the weighted locations of the result of each search: the two queries
\* match the page at different words
ResultLocations(s) ==
  IF s = "s1"
  THEN <<[weight |-> 1, balanced_score |-> 1, location |-> 0]>>
  ELSE <<[weight |-> 1, balanced_score |-> 2, location |-> 1],
         [weight |-> 1, balanced_score |-> 1, location |-> MaxOffset]>>

\* the client is initialized and both searches have resolved with the
\* result g1, no data() was called yet
SearchesResolved ==
  /\ ranking = FALSE
  /\ initPc = "done"
  /\ entryResult = "ok"
  /\ metaSt = "ok"
  /\ wasmSt = "ok"
  /\ wasm = TRUE
  /\ rawPtr = 1
  /\ loadedChunks = [h \in IndexHashes |-> NoEntry]
  /\ loadedFilters = [h \in FilterHashes |-> NoEntry]
  /\ loadedFragments = [h \in FragmentHashes |-> NoEntry]
  /\ fetches = [r \in Resources |->
                  IF r \in {"entry", "meta", "wasm"} THEN 1 ELSE 0]
  /\ engineHandle = 1
  /\ engineLoaded = {}
  /\ inFlight = {}
  /\ running = "none"
  /\ sq = [s \in Searches |->
             [IdleSearch EXCEPT
                !.pc = "resolved",
                !.norm = IF s = "s1" THEN <<"a">> ELSE <<"b">>,
                !.initOk = TRUE,
                !.resp =
                  <<[results |-> <<"g1">>, unfilteredResultCount |-> 1,
                     filters |-> {<<"tag", "x", 1>>},
                     totalFilters |-> {<<"tag", "x", 2>>},
                     timings |-> [preload |-> 0, search |-> 0,
                                  total |-> 0]]>>]]
  /\ callsBy = [t \in Tasks |->
                  IF t \in Searches THEN 3 ELSE IF t = "init" THEN 1 ELSE 0]
  /\ dataCalls = [h \in FragmentHashes |-> 0]

InitData ==
  /\ SearchesResolved
  /\ cached = [h \in FragmentHashes |-> <<>>]
  /\ dcall = <<>>
  /\ pure = [arg |-> <<>>, ret |-> <<>>]
  /\ bridge = BridgeLoaded

\* lines 405, 466-474: data() of the result of search s up to its await
DataCall(s) ==
  /\ DataCalled(s, "g1")
  /\ dcall' = Append(dcall, [search |-> s, st |-> "waiting", value |-> <<>>])
  /\ UNCHANGED <<cached, pure, bridge>>

\* lines 502-506: the fragment file arrives and is parsed, or the fetch fails
FragmentLoaded(out, fragment) ==
  /\ FragmentArrived("g1", out)
  /\ cached' = IF out = "ok" THEN [cached EXCEPT !["g1"] = <<fragment>>]
               ELSE cached
  /\ UNCHANGED <<dcall, pure, bridge>>

\* the await resumes only when the promise is fulfilled
FragmentFulfilled(hash) == loadedFragments[hash].st = "loaded"

\* line 474: the promise of the fragment is settled, and the await of every
\* caller that holds it resumes, with the value or with the error
FragmentSettled(hash) == loadedFragments[hash].st \in {"loaded", "failed"}

\* lines 474-499: the oldest waiting data() call resumes after its await
DataSettled(i) ==
  /\ running = "none"
  /\ i \in 1..Len(dcall)
  /\ dcall[i].st = "waiting"
  /\ \A k \in 1..(i - 1) : dcall[k].st # "waiting"
  /\ FragmentSettled("g1")
  /\ IF loadedFragments["g1"].st = "failed"
     THEN /\ dcall' = [dcall EXCEPT ![i].st = "rejected"]
          /\ UNCHANGED cached
     ELSE LET fragment == Enrich(cached["g1"][1],
                                 ResultLocations(dcall[i].search),
                                 ClientExcerptLength)
          IN /\ dcall' = [dcall EXCEPT ![i].st = "resolved",
                                       ![i].value = <<fragment>>]
             /\ cached' = [cached EXCEPT
                             !["g1"] =
                               <<StoredAfterClone(cached["g1"][1], fragment)>>]
  /\ UNCHANGED <<mainVars, pure, bridge>>

NextData ==
  \/ \E s \in Searches : DataCall(s)
  \/ \E out \in FetchOutcomes, fragment \in RawFragments :
       FragmentLoaded(out, fragment)
  \/ \E i \in 1..MaxDataCalls : DataSettled(i)

SpecData == InitData /\ [][NextData]_vars

\* C12: once fetched, the cached raw fragment never changes; every value a
\* data() call resolves with is the enrichment of that raw fragment with the
\* result's own weighted locations, so that two calls on the same result
\* resolve with equal fragments whatever was resolved before or in between.
C12_RawFragmentKept ==
  /\ [](\A i, j \in 1..Len(dcall) :
          /\ dcall[i].st = "resolved"
               => /\ cached["g1"] # <<>>
                  /\ cached["g1"][1] \in RawFragments
                  /\ dcall[i].value[1].weighted_locations =
                       ResultLocations(dcall[i].search)
          /\ (/\ dcall[i].st = "resolved"
              /\ dcall[j].st = "resolved"
              /\ dcall[i].search = dcall[j].search)
               => dcall[i].value = dcall[j].value)
  /\ [][cached["g1"] # <<>> => cached' = cached]_vars

\* C12 witness: the result of s1 was resolved, then that of s2 with other
\* locations, then that of s1 again; the first and third fragment are equal
\* and differ from the second
C12_Witness ==
  /\ Len(dcall) = 3
  /\ \A i \in 1..3 : dcall[i].st = "resolved"
  /\ dcall[1].search = "s1" /\ dcall[2].search = "s2" /\ dcall[3].search = "s1"
  /\ dcall[1].value = dcall[3].value
  /\ dcall[1].value # dcall[2].value
  /\ cached["g1"][1].raw_content = <<>>

(***************************************************************************)
(* parseFilters on the filter strings of the engine                         *)
(***************************************************************************)
\* one value entry: its text and what follows the text
FilterEntries ==
  [value : {<<"x">>, <<"y", ":", "z">>},
   tail : {<<":", "3">>, <<":", "1", "5">>, <<>>, <<":">>, <<":", "q">>}]

\* the tail of the entry is a colon followed by digits
HasCount(e) ==
  Len(e.tail) >= 2 /\ \A i \in 2..Len(e.tail) : e.tail[i] \in Digits

FormatFilterEntry(e) == e.value \o e.tail

\* the text of one filter block, name:entry__PF_VALUE_DELIM__entry
FormatFilterBlock(b) ==
  b.name \o <<":">>
    \o Join([i \in 1..Len(b.entries) |-> FormatFilterEntry(b.entries[i])],
            <<VALUE_DELIM>>)

FormatFilters(blocks) ==
  Join([i \in 1..Len(blocks) |-> FormatFilterBlock(blocks[i])],
       <<FILTER_DELIM>>)

\* the filter a, alone or followed by the filter b, each with up to two
\* value entries
FilterBlockLists ==
  {<<[name |-> <<"a">>, entries |-> ea]>> : ea \in UpToTwo(FilterEntries)}
    \cup {<<[name |-> <<"a">>, entries |-> ea],
            [name |-> <<"b">>, entries |-> eb]>> :
            ea, eb \in UpToTwo(FilterEntries)}

\* the filter string of the example
ExampleFilters ==
  <<[name |-> <<"a">>,
     entries |-> <<[value |-> <<"x">>, tail |-> <<":", "3">>],
                   [value |-> <<"y">>, tail |-> <<":", "5">>]>>],
    [name |-> <<"b">>,
     entries |-> <<[value |-> <<"z">>, tail |-> <<":", "1">>]>>]>>

FilterArgs ==
  {[blocks |-> bl, str |-> FormatFilters(bl)] :
     bl \in FilterBlockLists \cup {ExampleFilters, <<>>}}

InitFilters == PureInit(FilterArgs)

CallFilters == PureReturn(ParseFilters(pure.arg.str))

SpecFilters == InitFilters /\ [][CallFilters]_vars

\* the entries of block b that have a count, and the last of them with the
\* value v
Counted(b) == {i \in 1..Len(b.entries) : HasCount(b.entries[i])}
LastWith(b, v) ==
  b.entries[Greatest({i \in Counted(b) : b.entries[i].value = v})]

\* C21: the result has one key per filter block, the text before the block's
\* first colon, and under it one key per value entry with a count, the text
\* before the entry's last colon, holding the number after that colon.
C21_FiltersParsed ==
  Called =>
    LET blocks == pure.arg.blocks
    IN /\ DOMAIN pure.ret[1] = {blocks[i].name : i \in 1..Len(blocks)}
       /\ \A i \in 1..Len(blocks) :
            LET b == blocks[i]
                map == pure.ret[1][b.name]
            IN /\ DOMAIN map = {b.entries[k].value : k \in Counted(b)}
               /\ \A v \in DOMAIN map :
                    map[v] = DigitsValue(Tail(LastWith(b, v).tail))

\* C21 witness: the example a:x:3__PF_VALUE_DELIM__y:5__PF_FILTER_DELIM__b:z:1
\* gave {a: {x: 3, y: 5}, b: {z: 1}}
C21_Witness ==
  /\ Called
  /\ pure.arg.blocks = ExampleFilters
  /\ DOMAIN pure.ret[1] = {<<"a">>, <<"b">>}
  /\ DOMAIN pure.ret[1][<<"a">>] = {<<"x">>, <<"y">>}
  /\ pure.ret[1][<<"a">>][<<"x">>] = 3
  /\ pure.ret[1][<<"a">>][<<"y">>] = 5
  /\ DOMAIN pure.ret[1][<<"b">>] = {<<"z">>}
  /\ pure.ret[1][<<"b">>][<<"z">>] = 1

\* C22: a value entry without a count is in the filter's map with the
\* number 0.
C22_MissingCountIsZero ==
  Called =>
    \A i \in 1..Len(pure.arg.blocks) :
      LET b == pure.arg.blocks[i]
      IN \A k \in 1..Len(b.entries) :
           (/\ ~HasCount(b.entries[k])
            /\ \A j \in Counted(b) : b.entries[j].value # b.entries[k].value)
             => /\ b.entries[k].value \in DOMAIN pure.ret[1][b.name]
                /\ pure.ret[1][b.name][b.entries[k].value] = 0

(***************************************************************************)
(* The normalization and the exact-phrase test of search(), lines 326-333  *)
(***************************************************************************)
\* largest number of characters of a raw query
MaxQuery == 4

QueryChars == {"a", "A", " ", "\t", "\n", "!", "\""}

RawQueries == UNION {[1..n -> QueryChars] : n \in 0..MaxQuery}

InitNormalize == PureInit(RawQueries)

CallNormalize ==
  PureReturn([normalized |-> Normalize(pure.arg),
              exactSearch |-> ExactSearch(pure.arg)])

SpecNormalize == InitNormalize /\ [][CallNormalize]_vars

\* C23: the normalized query is lowercase, has no punctuation, no leading
\* or trailing whitespace, its whitespace is single spaces only, and
\* normalizing it again returns it unchanged.
C23_Normalized ==
  Called =>
    LET n == pure.ret[1].normalized
    IN /\ ToLowerCase(n) = n
       /\ \A i \in 1..Len(n) : n[i] \notin Punctuation
       /\ n # <<>> => ~IsSpace(n[1]) /\ ~IsSpace(n[Len(n)])
       /\ \A i \in 1..Len(n) :
            IsSpace(n[i]) => n[i] = " " /\ (i > 1 => ~IsSpace(n[i - 1]))
       /\ Normalize(n) = n

\* the raw query without leading and trailing whitespace starts with a
\* double quote, ends with a double quote and has content between them
Wrapped(term) ==
  LET t == Trim(term)
  IN Len(t) >= 3 /\ t[1] = "\"" /\ t[Len(t)] = "\""

\* C24: the exact flag is true if and only if the trimmed raw query is
\* wrapped in double quotes with content between them.
C24_ExactIffWrapped ==
  Called => (pure.ret[1].exactSearch <=> Wrapped(pure.arg))

\* ---------------------------------------------------------------------------
\* wasm-bridge.ts: the views over engine memory and the calls that return a
\* string.  The engine is opaque: an export may grow the memory it is called
\* on, and may trap; a trap is taken to leave the scratch pointer where the
\* bridge put it.
\* ---------------------------------------------------------------------------

\* number of times one engine's memory grows
MaxGrow == 2

\* the bytes reserved for the two result words, lines 131 and 138
ScratchSize == 16

\* a view whose buffer was detached (byteLength 0) is never taken for a
\* live one
NeverDetached(b, view) == FALSE

\* byteLength === 0, lines 18 and 25: growing a memory detaches the buffer
\* the memory had, and every view over it then has length 0
Detached(b, view) == b.buffer[view.engine] # view.gen

\* new Uint8Array(wasm.memory.buffer), lines 19 and 26
ViewOf(b, e) == [engine |-> e, gen |-> b.buffer[e]]

\* getUint8, lines 17-22
GetUint8(b, e) ==
  IF b.cachedUint8 = <<>>
    THEN [b EXCEPT !.cachedUint8 = <<ViewOf(b, e)>>]
    ELSE IF Detached(b, b.cachedUint8[1])
      THEN [b EXCEPT !.cachedUint8 = <<ViewOf(b, e)>>, !.rederived = TRUE]
      ELSE b

\* getInt32, lines 24-29
GetInt32(b, e) ==
  IF b.cachedInt32 = <<>>
    THEN [b EXCEPT !.cachedInt32 = <<ViewOf(b, e)>>]
    ELSE IF Detached(b, b.cachedInt32[1])
      THEN [b EXCEPT !.cachedInt32 = <<ViewOf(b, e)>>, !.rederived = TRUE]
      ELSE b

\* one read or write through a view, in a call made for engine e: the view,
\* the engine and the buffer that is the engine's memory at that moment
Access(b, view, e) ==
  [b EXCEPT !.accesses =
     @ \cup {[view |-> view, engine |-> e, current |-> b.buffer[e]]}]

\* an export that allocates or runs the engine may grow the memory
Grow(b, e, grows) ==
  IF grows /\ b.buffer[e] < MaxGrow
    THEN [b EXCEPT !.buffer[e] = @ + 1]
    ELSE b

\* wasm.__wbindgen_malloc, lines 35 and 46: it may grow the memory, or trap
Malloc(b, e, grows, traps) ==
  IF traps THEN [b EXCEPT !.thrown = TRUE] ELSE Grow(b, e, grows)

\* passArray8ToWasm, lines 31-39
PassArray8ToWasm(b, e, grows) ==
  LET b1 == Malloc(b, e, "malloc" \in grows, FALSE)
      b2 == GetUint8(b1, e)
  IN  Access(b2, b2.cachedUint8[1], e)

\* the strings handed to the engine, by where their first character above
\* 0x7f stands: nowhere, after some ASCII characters, at the start
StringKinds == {"empty", "ascii", "mixed", "nonascii"}

\* passStringToWasm, lines 41-69
PassStringToWasm(b, e, kind, grows, traps) ==
  LET b1 == Malloc(b, e, "malloc" \in grows, traps)
      mem == GetUint8(b1, e)
      \* lines 50-54, the ASCII characters are written through mem
      b2 == IF kind \in {"ascii", "mixed"}
              THEN Access(mem, mem.cachedUint8[1], e) ELSE mem
      \* lines 58-60
      b3 == Grow(b2, e, "realloc" \in grows)
      \* lines 61-62
      b4 == GetUint8(b3, e)
      b5 == Access(b4, b4.cachedUint8[1], e)
      \* line 64
      b6 == Grow(b5, e, "realloc" \in grows)
  IN  IF b.thrown THEN b
      ELSE IF b1.thrown THEN b1
      ELSE IF kind \in {"mixed", "nonascii"} THEN b6 ELSE b2

\* how a call that returns a string ends: the string is returned, the
\* allocation of its first, second or third argument traps, the engine
\* traps, the decoding of the result throws
Outcomes ==
  {"ok", "alloc1", "alloc2", "alloc3", "engineTraps", "decodeThrows"}

\* the outcome in which the allocation of argument number i traps
AllocTraps(i) == <<"alloc1", "alloc2", "alloc3">>[i]

\* the string arguments of one call, passed in order from number i on
RECURSIVE PassStrings(_, _, _, _, _, _)
PassStrings(b, e, kinds, i, grows, outcome) ==
  IF i > Len(kinds) THEN b
  ELSE PassStrings(PassStringToWasm(b, e, kinds[i], grows,
                                    outcome = AllocTraps(i)),
                   e, kinds, i + 1, grows, outcome)

\* wasm.__wbindgen_add_to_stack_pointer, lines 131 and 138
AddToStackPointer(b, e, n) == [b EXCEPT !.sp[e] = @ + n]

\* the engine export of a call that returns a string, lines 133, 152, 207:
\* it writes the pointer and the length of its result at retptr, or traps
EngineCall(b, e, grows, traps) ==
  IF b.thrown THEN b
  ELSE IF traps THEN [b EXCEPT !.spAtCall = <<b.sp[e]>>, !.thrown = TRUE]
  ELSE [Grow(b, e, grows) EXCEPT !.spAtCall = <<b.sp[e]>>, !.returned = TRUE]

\* d0 and d1, lines 134-135: read through getInt32; they are the engine's
\* result when the view is over the memory the engine wrote it to
ReadResult(b, e) ==
  LET b1 == GetInt32(b, e)
      b2 == Access(b1, b1.cachedInt32[1], e)
  IN  IF b.thrown THEN b
      ELSE [b2 EXCEPT !.d = IF b1.cachedInt32[1] = ViewOf(b1, e)
                             THEN "result" ELSE "garbage"]

\* getStringFromWasm, lines 71-74: the decoder is fatal (line 11) and throws
\* on bytes that are not UTF-8
GetStringFromWasm(b, e, invalid) ==
  LET b1 == GetUint8(b, e)
      b2 == Access(b1, b1.cachedUint8[1], e)
  IN  IF b.thrown THEN b
      ELSE [b2 EXCEPT !.thrown = invalid]

\* the scratch is given back and d0 freed only when nothing was thrown
FinallyOnReturn(b, e) ==
  IF b.thrown THEN b
  ELSE [AddToStackPointer(b, e, ScratchSize) EXCEPT !.freed = Append(@, b.d)]

\* the finally block, lines 137-140
Finally(b, e) ==
  [AddToStackPointer(b, e, ScratchSize) EXCEPT !.freed = Append(@, b.d)]

\* the state a bridge call starts from
Begin(b, op, e) ==
  [b EXCEPT !.op = op, !.engine = e, !.spBefore = b.sp[e], !.spAtCall = <<>>,
            !.accesses = {}, !.rederived = FALSE,
            !.thrown = FALSE, !.returned = FALSE, !.d = "undefined",
            !.freed = <<>>]

\* the body shared by requestIndexes (124-141), requestFilterIndexes
\* (143-160) and wasmSearch (193-215)
StringCall(b, op, e, kinds, grows, outcome) ==
  LET b1 == AddToStackPointer(Begin(b, op, e), e, 0 - ScratchSize)
      b2 == PassStrings(b1, e, kinds, 1, grows, outcome)
      b3 == EngineCall(b2, e, "engine" \in grows, outcome = "engineTraps")
      b4 == ReadResult(b3, e)
      b5 == GetStringFromWasm(b4, e, outcome = "decodeThrows")
  IN  Finally(b5, e)

\* which exports grow the memory during one call
GrowChoices == SUBSET {"malloc", "realloc", "engine"}

BridgeUnchanged == UNCHANGED <<mainVars, cached, dcall, pure>>

\* initPagefind, lines 80-83
InitPagefind(e) ==
  /\ \E grows \in GrowChoices :
       bridge' = Grow(PassArray8ToWasm(Begin(bridge, "initPagefind", e),
                                       e, grows),
                      e, "engine" \in grows)
  /\ BridgeUnchanged

\* loadIndexChunk, lines 94-101
LoadIndexChunk(e) ==
  /\ \E grows \in GrowChoices :
       bridge' = Grow(PassArray8ToWasm(Begin(bridge, "loadIndexChunk", e),
                                       e, grows),
                      e, "engine" \in grows)
  /\ BridgeUnchanged

\* requestIndexes, lines 124-141
RequestIndexes(e) ==
  /\ \E kind \in StringKinds, grows \in GrowChoices,
        outcome \in Outcomes \ {"alloc2", "alloc3"} :
       bridge' = StringCall(bridge, "requestIndexes", e, <<kind>>, grows,
                            outcome)
  /\ BridgeUnchanged

\* requestFilterIndexes, lines 143-160
RequestFilterIndexes(e) ==
  /\ \E kind \in {"ascii", "mixed"}, grows \in GrowChoices,
        outcome \in Outcomes \ {"alloc2", "alloc3"} :
       bridge' = StringCall(bridge, "requestFilterIndexes", e, <<kind>>,
                            grows, outcome)
  /\ BridgeUnchanged

\* wasmSearch, lines 193-215: the query, the filter and the sort
WasmSearch(e) ==
  /\ \E query \in StringKinds, grows \in GrowChoices, outcome \in Outcomes :
       bridge' = StringCall(bridge, "wasmSearch", e,
                            <<query, "ascii", "empty">>, grows, outcome)
  /\ BridgeUnchanged

InitBridge ==
  /\ ClientInit
  /\ ranking = FALSE
  /\ cached = [h \in FragmentHashes |-> <<>>]
  /\ dcall = <<>>
  /\ pure = [arg |-> <<>>, ret |-> <<>>]
  /\ bridge = BridgeLoaded

NextBridge ==
  \E e \in Engines :
    \/ InitPagefind(e)
    \/ LoadIndexChunk(e)
    \/ RequestIndexes(e)
    \/ RequestFilterIndexes(e)
    \/ WasmSearch(e)

SpecBridge == InitBridge /\ [][NextBridge]_vars

\* the bridge calls that return a string
StringCalls == {"requestIndexes", "requestFilterIndexes", "wasmSearch"}

\* the last call's accesses all went through views over its own engine's
\* memory
OwnViews == \A a \in bridge.accesses : a.view.engine = a.engine

C27_OwnMemoryOnly == bridge.op # "none" => OwnViews

(***************************************************************************)
(* Settling: search() and data() on an initialized client, when every      *)
(* fetch is answered                                                        *)
(***************************************************************************)
\* the client after init() resolved, no search() was called yet
InitLive ==
  /\ ranking = FALSE
  /\ initPc = "done"
  /\ entryResult = "ok"
  /\ metaSt = "ok"
  /\ wasmSt = "ok"
  /\ wasm = TRUE
  /\ rawPtr = 1
  /\ loadedChunks = [h \in IndexHashes |-> NoEntry]
  /\ loadedFilters = [h \in FilterHashes |-> NoEntry]
  /\ loadedFragments = [h \in FragmentHashes |-> NoEntry]
  /\ fetches = [r \in Resources |->
                  IF r \in {"entry", "meta", "wasm"} THEN 1 ELSE 0]
  /\ engineHandle = 1
  /\ engineLoaded = {}
  /\ inFlight = {}
  /\ running = "none"
  /\ sq = [s \in Searches |-> IdleSearch]
  /\ callsBy = [t \in Tasks |-> IF t = "init" THEN 1 ELSE 0]
  /\ dataCalls = [h \in FragmentHashes |-> 0]
  /\ cached = [h \in FragmentHashes |-> <<>>]
  /\ dcall = <<>>
  /\ pure = [arg |-> <<>>, ret |-> <<>>]
  /\ bridge = BridgeLoaded

\* the queries of the searches: one that is empty after normalization and
\* one that is not
LiveTerms == {<<" ">>, <<"a">>}

\* the steps that follow a call by themselves: an engine call returns, a
\* settled promise resumes the function that awaits it
RequestIndexesReturns(s) ==
  \E out \in SUBSET IndexHashes \cup {{"throw"}} : RequestIndexesReturn(s, out)
RequestFilterIndexesReturns(s) ==
  \E out \in SUBSET FilterHashes \cup {{"throw"}} :
    RequestFilterIndexesReturn(s, out)
SearchReturns(s) ==
  \E reply \in {<<>>} \cup {<<r>> : r \in EngineReplies} :
    SearchReturn(s, reply, <<0, 0>>)
LoadIndexChunkReturns(h) ==
  \E out \in CallOutcomes : LoadIndexChunkReturn(h, out)
LoadFilterChunkReturns(h) ==
  \E out \in CallOutcomes : LoadFilterChunkReturn(h, out)

\* the answers of the network: every fetch completes, with a response or
\* with a failure
ChunkFetchCompletes(h) == \E out \in FetchOutcomes : LoadChunkFetched(h, out)
FilterFetchCompletes(h) ==
  \E out \in FetchOutcomes : LoadFilterChunkFetched(h, out)
FragmentFetchCompletes(h) ==
  \E out \in FetchOutcomes : FragmentFetched(h, out)

\* line 474: the oldest waiting data() call resumes after its await, with
\* the error of the load or with a fragment; the content of the fragment
\* (lines 476-499) is left out, it has no part in whether the call settles
DataResumes(i) ==
  /\ running = "none"
  /\ i \in 1..Len(dcall)
  /\ dcall[i].st = "waiting"
  /\ \A k \in 1..(i - 1) : dcall[k].st # "waiting"
  /\ FragmentSettled("g1")
  /\ dcall' = [dcall EXCEPT
                ![i].st = IF loadedFragments["g1"].st = "failed"
                          THEN "rejected" ELSE "resolved"]
  /\ UNCHANGED <<mainVars, cached, pure, bridge>>

NextLive ==
  \/ \E s \in Searches, term \in LiveTerms : SearchCall(s, term)
  \/ \E s \in Searches : RequestIndexesReturns(s)
  \/ \E s \in Searches : RequestFilterIndexesReturns(s)
  \/ \E s \in Searches : SearchLoadsSettled(s)
  \/ \E s \in Searches : SearchReturns(s)
  \/ \E h \in IndexHashes : ChunkFetchCompletes(h)
  \/ \E h \in IndexHashes : LoadIndexChunkReturns(h)
  \/ \E h \in FilterHashes : FilterFetchCompletes(h)
  \/ \E h \in FilterHashes : LoadFilterChunkReturns(h)
  \/ \E s \in Searches : DataCall(s)
  \/ \E h \in FragmentHashes : FragmentFetchCompletes(h)
  \/ \E i \in 1..MaxDataCalls : DataResumes(i)

\* the steps that are not calls of the user: the answers of the network, the
\* returns of the engine, the resumptions after a settled promise
Pending ==
  \/ \E s \in Searches : RequestIndexesReturns(s)
  \/ \E s \in Searches : RequestFilterIndexesReturns(s)
  \/ \E s \in Searches : SearchLoadsSettled(s)
  \/ \E s \in Searches : SearchReturns(s)
  \/ \E h \in IndexHashes : ChunkFetchCompletes(h)
  \/ \E h \in IndexHashes : LoadIndexChunkReturns(h)
  \/ \E h \in FilterHashes : FilterFetchCompletes(h)
  \/ \E h \in FilterHashes : LoadFilterChunkReturns(h)
  \/ \E h \in FragmentHashes : FragmentFetchCompletes(h)
  \/ \E i \in 1..MaxDataCalls : DataResumes(i)

\* as long as a fetch is unanswered, an engine call has not returned or a
\* function whose awaited promise is settled has not resumed, one of them
\* happens
FairLive == WF_vars(Pending)

SpecLive == InitLive /\ [][NextLive]_vars /\ FairLive

\* search s has settled
SearchSettled(s) == sq[s].pc \in {"resolved", "rejected"}

\* the data() call number i has settled
DataCallSettled(i) ==
  Len(dcall) >= i /\ dcall[i].st \in {"resolved", "rejected"}

\* C28: when every fetch is answered, every search() that was called
\* settles, and every data() that was called settles, whichever caller
\* started the load it waits for.
C28_EverySettles ==
  /\ \A s \in Searches : (sq[s].pc # "idle") ~> SearchSettled(s)
  /\ \A i \in 1..MaxDataCalls : (Len(dcall) >= i) ~> DataCallSettled(i)

\* both searches needed the index chunk, which was fetched once, and both
\* settled; two data() calls on the fragment, which was fetched once, settled
C28_Witness ==
  /\ \A s \in Searches : SearchSettled(s) /\ "i1" \in sq[s].needIdx
  /\ fetches["i1"] = 1
  /\ Len(dcall) >= 2
  /\ \A i \in 1..Len(dcall) : DataCallSettled(i)
  /\ fetches["g1"] = 1

====
